---- MODULE Spec2Model ----
(***************************************************************************)
(* A model of the psxdmh audio module graph: the silencer (silencer.h),    *)
(* the splitter (splitter.h) and the ADPCM decoder (adpcm.cpp).  Each      *)
(* component has a specification of its own; the variables of the other    *)
(* components keep their idle values under it.                             *)
(*                                                                         *)
(* Samples are integers in units of half the silence threshold, so that a  *)
(* sample can be silent without being zero.  The model is of a release     *)
(* build: assert() compiles to nothing.                                    *)
(***************************************************************************)
EXTENDS Integers, Sequences, FiniteSets, TLC

\* ------------------------------------------------------------------ bounds

\* Longest source stream fed to the silencer.
MaxSrcLen == 4
\* Largest lead_in / lead_out setting of the silencer (-1 = disabled).
MaxLead == 1
\* Largest gap setting of the silencer (-1 = disabled, 0 is not allowed).
MaxGap == 1

\* Most splitters sharing one source.
MaxChildren == 3
\* Longest source stream fed to the splitter.
MaxSplSrcLen == 2
\* Most next() calls made on one splitter.
MaxPulls == 3

\* Most blocks in an ADPCM stream.
MaxBlocks == 2
\* Largest play_count given to the ADPCM decoder (0 = play indefinitely).
MaxPlayCount == 2

\* Most events, the end of stream aside, in a track's music data.
MaxEvents == 2

\* ----------------------------------------------------------------- samples

\* PSXDMH_SILENCE, mono_t(1.0 / SHRT_MAX), in the model's sample unit.
PSXDMH_SILENCE == 2

\* The sample values sources draw from: zero, a silent non-zero value and
\* two distinct non-silent values.
Samples == {0, 1, 2, -3}

Abs(x) == IF x < 0 THEN -x ELSE x

is_silent(s) == Abs(s) < PSXDMH_SILENCE

VARIABLES
    \* The silencer's source: its samples and how many were pulled.
    src_data, src_pos,
    \* silencer fields.
    m_lead_in, m_lead_out, m_gap,
    m_state, m_buffered_silence, m_have_unsilent_sample, m_unsilent_sample,
    \* What the silencer's caller saw: the samples of the next() calls that
    \* returned true, the last call made and its result, and whether any
    \* next() has returned false so far.
    sil_out, sil_op, sil_ret, sil_s, sil_stopped,
    \* The splitter's source: its samples, how many were pulled, how often
    \* its next() was called, and whether it has been deleted.
    spl_src, spl_pos, spl_calls, spl_src_alive,
    \* splitter_parent: whether it exists, the use count of the shared_ptr
    \* that owns it, and its list of attached children.
    parent_alive, parent_refs, m_child_streams,
    \* The splitters by number: "none" (not yet created), "alive" or
    \* "destroyed", and the m_buffer of each.
    child, m_buffer,
    \* What the callers saw: each living splitter's next() results, how many
    \* source samples had been pulled when it was attached, and the last
    \* call made.
    spl_got, spl_attach, spl_op,
    \* adpcm fields.  m_data is a sequence of blocks, each with its byte 0
    \* (filter and shift), its byte 1 (flags) and the value d that each of
    \* its 14 data bytes holds.  The buffer holds the int16 values; a sample
    \* is such a value over 32768.
    m_data, m_play_count, m_current, m_repeat, m_s0, m_s1,
    adpcm_buffer, m_buffer_next,
    \* What the decoder's caller saw: the play_count it was built with, how
    \* many next() calls returned true, the last result and sample, whether
    \* the last call threw, and the index the filter tables were last read at.
    ad_plays, ad_count, ad_ret, ad_s, ad_err, ad_filter,
    \* The two SPU ADSR registers an envelope was built from, and the
    \* envelope's fields.  m_config is config_of applied to the registers.
    spu_ads, spu_sr,
    m_phase, m_volume, m_cycle_repeats, m_cycle_wait, m_cycle_current_wait,
    m_cycle_step,
    \* What the envelope's caller saw: the last call made, the volume and
    \* result the last next() gave, and whether release() was ever called.
    env_op, env_out, env_ret, env_released,
    \* The track a player plays (its music data and header), the fields of its
    \* music_stream, and the player's own fields.  Each member of m_channels
    \* stands for a channel: its note (user_data), whether and how often
    \* release() was called,
    \* whether it was pulled, the next() call and the applied event that
    \* created it, and whether it was released when first pulled, together
    \* with the channel's own fields.  The track's instrument is the
    \* sub-instrument its notes are played with; the track volume is held in
    \* 127ths and the unit pitch bend in 8192nds of a twelfth.
    trk_data, trk_beats_per_minute, trk_ticks_per_beat, trk_repeat, trk_repeat_start,
    trk_instrument, m_track_volume, m_pan_offset, m_unit_pitch_bend,
    m_position, m_caller_ticks_per_minute, m_track_ticks_per_minute,
    m_tick_position, m_tick_fraction, m_next_event_time,
    tp_play_count, m_channels,
    \* What the player's caller and the track saw: the play count asked for,
    \* the number of next() calls and of tick() calls, every event applied
    \* (code, offset, first parameter, track tick, next() call, whether the
    \* stream was moved, whether a channel was added or altered, and the play
    \* count, track volume, pan offset and unit pitch bend after it),
    \* the last result, and whether next() threw or is stuck in its loop.
    tp_plays, tp_calls, tp_ticks, tp_applied, tp_ret, tp_err, tp_hung,
    \* The last call made on the music stream itself, with seek()'s argument.
    ms_op,
    \* Normalizer: its source (the samples it yields and the next() call at
    \* which it throws, 0 for never), how far the source has been pulled, the
    \* normalizer's fields (m_temp_file is "null", or the mode the safe_file
    \* was opened in, or "closed" once close() ran on it; m_normalization is
    \* the fraction <<numerator, denominator>>), the spill file on disk and
    \* what it holds, and what the caller saw: the number of source pulls made
    \* by each next() call, the samples handed out, the last result, whether
    \* a call threw, and whether the normalizer has been destroyed.
    nm_src, nm_src_throws, nm_src_pos, m_temp_file, m_temp_file_created,
    m_normalization, m_samples, m_current_sample, nm_file_exists, nm_file,
    nm_pulls, nm_out, nm_ret, nm_err, nm_destroyed,
    \* WAV writer: the root module's samples (in quarters of full scale) and
    \* how many it has produced, where write() is ("new" before the call,
    \* "open" inside its loop, "closed" after it returned, "aborted" after it
    \* threw and the file was removed), m_samples, the 16-bit samples in the
    \* file, and for every next() call made on the root: whether the root's
    \* is_running() was true before it, what it returned, and whether it was
    \* the first call of a batch.
    wav_root, wav_root_pos, wav_state, wav_m_samples, wav_data, wav_pulls,
    \* A module with one or two sources (volume, filter, statistics, reverb,
    \* channel): which it is, each source's samples and state (samples
    \* produced, next() calls received), the module's fields (the volume's
    \* m_level, the filter's memory, whether the channel still holds its
    \* resampler, the statistics' sample count) and what its caller saw: the
    \* samples returned, the last result and the number of next() calls.
    node_kind, node_src, node_st, node_src2, node_st2, m_level, m_x1, m_x2,
    m_y1, m_y2, m_resampler, st_m_samples, node_out, node_ret, node_calls,
    \* Patch repair: the LCD's patches with a listed id (the ADPCM blocks of
    \* each, none for a patch that is absent), the same before the call, the
    \* id of the patch repair_patches() threw for (0 for none) and whether it
    \* has been called.
    m_patches, rp_before, rp_thrown, rp_done,
    \* edit_adpcm(): the data and the arguments it is called with, the data
    \* before the call, whether the call wrote outside the data, and whether
    \* it has been made.
    ed_adpcm, ed_silence_start, ed_remove_end, ed_before, ed_outside, ed_done,
    \* The sinc resampler: its source (samples and how many it has given),
    \* the resampler's fields (the buffer is indexed from 1 here), and what
    \* the caller saw: the number of next() calls that returned true and the
    \* sample of the last one in thousandths of the source's unit, the last
    \* result, whether every such call ran with rate_in = rate_out, whether a
    \* call read outside the sinc table, the turns the last call's advance
    \* loop made, and the last call.
    rs_src, rs_pos, m_window, m_rate_in, m_rate_out, m_circular_buffer,
    m_buffer_head, m_offset, m_live_samples, rs_count, rs_s, rs_ret, rs_equal,
    rs_fault, rs_turns, rs_op,
    \* The reverb core: its preset, the size of its delay buffer, the
    \* divisor of its volume, its source (stereo samples and how many it has
    \* given), m_buffer (indexed from 1 here), m_current, the two fields of
    \* the silence scan, and what the caller saw: the last call made, its
    \* result and sample, the buffer entries the call's scan inspected,
    \* whether is_running() or next() has returned false so far, the buffer
    \* indices a next() call touches at the current position, and the
    \* number of next() calls made.
    rv_preset, rv_size, rv_volume, rv_src, rv_pos, rv_buffer, rv_current,
    m_buffer_is_silent, m_last_unsilent_sample, rv_op, rv_ret, rv_s, rv_scanned,
    rv_stopped, rv_indices, rv_calls,
    \* Channel on its own: the channel, the last call made on it with its
    \* argument, the result and the sample of the last next() or
    \* is_running(), and the number of next() calls.
    chn, chn_op, chn_ret, chn_s, chn_calls

sil_vars == <<src_data, src_pos, m_lead_in, m_lead_out, m_gap, m_state,
              m_buffered_silence, m_have_unsilent_sample, m_unsilent_sample,
              sil_out, sil_op, sil_ret, sil_s, sil_stopped>>

spl_vars == <<spl_src, spl_pos, spl_calls, spl_src_alive, parent_alive,
              parent_refs, m_child_streams, child, m_buffer, spl_got,
              spl_attach, spl_op>>

ad_vars == <<m_data, m_play_count, m_current, m_repeat, m_s0, m_s1,
             adpcm_buffer, m_buffer_next, ad_plays, ad_count, ad_ret, ad_s,
             ad_err, ad_filter>>

env_vars == <<spu_ads, spu_sr, m_phase, m_volume, m_cycle_repeats, m_cycle_wait,
              m_cycle_current_wait, m_cycle_step, env_op, env_out, env_ret,
              env_released>>

trk_vars == <<trk_data, trk_beats_per_minute, trk_ticks_per_beat, trk_repeat,
              trk_repeat_start, trk_instrument, m_track_volume, m_pan_offset,
              m_unit_pitch_bend, m_position, m_caller_ticks_per_minute,
              m_track_ticks_per_minute, m_tick_position, m_tick_fraction,
              m_next_event_time, tp_play_count, m_channels, tp_plays, tp_calls,
              tp_ticks, tp_applied, tp_ret, tp_err, tp_hung, ms_op>>

nm_vars == <<nm_src, nm_src_throws, nm_src_pos, m_temp_file, m_temp_file_created,
             m_normalization, m_samples, m_current_sample, nm_file_exists,
             nm_file, nm_pulls, nm_out, nm_ret, nm_err, nm_destroyed>>

wav_vars == <<wav_root, wav_root_pos, wav_state, wav_m_samples, wav_data, wav_pulls>>

node_vars == <<node_kind, node_src, node_st, node_src2, node_st2, m_level, m_x1,
               m_x2, m_y1, m_y2, m_resampler, st_m_samples, node_out, node_ret,
               node_calls>>

lcd_vars == <<m_patches, rp_before, rp_thrown, rp_done>>

ed_vars == <<ed_adpcm, ed_silence_start, ed_remove_end, ed_before, ed_outside,
             ed_done>>

rs_vars == <<rs_src, rs_pos, m_window, m_rate_in, m_rate_out, m_circular_buffer,
             m_buffer_head, m_offset, m_live_samples, rs_count, rs_s, rs_ret,
             rs_equal, rs_fault, rs_turns, rs_op>>

rv_vars == <<rv_preset, rv_size, rv_volume, rv_src, rv_pos, rv_buffer, rv_current,
             m_buffer_is_silent, m_last_unsilent_sample, rv_op, rv_ret, rv_s,
             rv_scanned, rv_stopped, rv_indices, rv_calls>>

chn_vars == <<chn, chn_op, chn_ret, chn_s, chn_calls>>

vars == <<sil_vars, spl_vars, ad_vars, env_vars, trk_vars, nm_vars, wav_vars, node_vars, lcd_vars, ed_vars, rs_vars, rv_vars, chn_vars>>

\* The next() calls returning true that the model follows a decoder for: one
\* more than the longest stream played the largest number of times gives.
MaxCalls == 28 * MaxBlocks * MaxPlayCount + 1

\* The numbers splitters are known by, in order of creation.
Children == 1..MaxChildren

\* All sequences over S of length at most n.
SeqsUpTo(S, n) == UNION {[1..k -> S] : k \in 0..n}

\* No sinc resampler exists.
ResamplerIdle ==
    /\ rs_src = <<>>
    /\ rs_pos = 0
    /\ m_window = 0
    /\ m_rate_in = 0
    /\ m_rate_out = 0
    /\ m_circular_buffer = <<>>
    /\ m_buffer_head = 0
    /\ m_offset = 0
    /\ m_live_samples = 0
    /\ rs_count = 0
    /\ rs_s = 0
    /\ rs_ret = TRUE
    /\ rs_equal = TRUE
    /\ rs_fault = FALSE
    /\ rs_turns = 0
    /\ rs_op = "none"

\* No reverb core exists.
ReverbIdle ==
    /\ rv_preset = 0
    /\ rv_size = 0
    /\ rv_volume = 1
    /\ rv_src = <<>>
    /\ rv_pos = 0
    /\ rv_buffer = <<>>
    /\ rv_current = 0
    /\ m_buffer_is_silent = FALSE
    /\ m_last_unsilent_sample = 0
    /\ rv_op = "none"
    /\ rv_ret = TRUE
    /\ rv_s = <<0, 0>>
    /\ rv_scanned = 0
    /\ rv_stopped = FALSE
    /\ rv_indices = {}
    /\ rv_calls = 0

\* No channel exists on its own.
ChannelIdle ==
    /\ chn = <<>>
    /\ chn_op = <<"none", 0>>
    /\ chn_ret = TRUE
    /\ chn_s = <<0, 0>>
    /\ chn_calls = 0

\* ---------------------------------------------------------------- silencer

\* buffer_unsilent with the found sample lost: the flag is set but the
\* sample is not stored.
RECURSIVE buffer_unsilent_lost(_, _, _)
buffer_unsilent_lost(data, pos, sil) ==
    IF pos >= Len(data)
    THEN [pos |-> pos, sil |-> sil, have |-> FALSE, smp |-> 0]
    ELSE IF is_silent(data[pos + 1])
         THEN buffer_unsilent_lost(data, pos + 1, sil + 1)
         ELSE [pos |-> pos + 1, sil |-> sil, have |-> TRUE, smp |-> 0]

\* The while loop of process_audio: pull the source until a non-silent
\* sample is found or the source's next() returns false (which zeroes s).
RECURSIVE buffer_unsilent(_, _, _)
buffer_unsilent(data, pos, sil) ==
    IF pos >= Len(data)
    THEN [pos |-> pos, sil |-> sil, have |-> FALSE, smp |-> 0]
    ELSE IF is_silent(data[pos + 1])
         THEN buffer_unsilent(data, pos + 1, sil + 1)
         ELSE [pos |-> pos + 1, sil |-> sil, have |-> TRUE, smp |-> data[pos + 1]]

\* limit_gap with the gap setting ignored.
limit_gap_ignored(sil, gap) == sil

\* Gaps: buffered silence in front of a non-silent sample is cut to the gap.
limit_gap(sil, gap) == IF gap >= 0 /\ sil > gap THEN gap ELSE sil

\* lead_out_silence adding to the buffered silence instead of replacing it.
lead_out_silence_added(sil, lead_out) == IF lead_out >= 0 THEN sil + lead_out ELSE sil

\* Lead out: the requested amount of silence replaces what was buffered.
lead_out_silence(sil, lead_out) == IF lead_out >= 0 THEN lead_out ELSE sil

\* lead_in_silence that only ever adds silence: leading silence longer than
\* lead_in is kept.
lead_in_silence_kept(sil, lead_in) == IF lead_in > sil THEN lead_in ELSE sil

\* Lead in: the requested amount of silence replaces what was buffered.
lead_in_silence(sil, lead_in) == IF lead_in >= 0 THEN lead_in ELSE sil

\* silencer::process_audio on the current state: the new position of the
\* source and the new m_state, m_buffered_silence, m_have_unsilent_sample
\* and m_unsilent_sample.
process_audio ==
    LET b == buffer_unsilent(src_data, src_pos, m_buffered_silence)
        \* if (m_state == state::gaps)
        st1 == IF m_state = "gaps" /\ ~b.have THEN "lead_out" ELSE m_state
        sil1 == IF m_state = "gaps" /\ b.have THEN limit_gap(b.sil, m_gap) ELSE b.sil
        \* if (m_state == state::lead_out)
        st2 == IF st1 = "lead_out" THEN "finished" ELSE st1
        sil2 == IF st1 = "lead_out" THEN lead_out_silence(sil1, m_lead_out) ELSE sil1
        \* if (m_state == state::lead_in)
        st3 == IF st2 = "lead_in"
               THEN (IF b.have THEN "gaps" ELSE "lead_out")
               ELSE st2
        sil3 == IF st2 = "lead_in" THEN lead_in_silence(sil2, m_lead_in) ELSE sil2
    IN [pos |-> b.pos, state |-> st3, sil |-> sil3, have |-> b.have, smp |-> b.smp]

\* The condition under which is_running and next call process_audio.
buffers_empty ==
    m_buffered_silence = 0 /\ ~m_have_unsilent_sample /\ m_state # "finished"

\* The silencer's fields once the buffers have been topped up.
topped_up ==
    IF buffers_empty
    THEN process_audio
    ELSE [pos |-> src_pos, state |-> m_state, sil |-> m_buffered_silence,
          have |-> m_have_unsilent_sample, smp |-> m_unsilent_sample]

\* silencer::is_running.
silencer_is_running ==
    LET t == topped_up IN
    /\ src_pos' = t.pos
    /\ m_state' = t.state
    /\ m_buffered_silence' = t.sil
    /\ m_have_unsilent_sample' = t.have
    /\ m_unsilent_sample' = t.smp
    /\ sil_op' = "is_running"
    /\ sil_ret' = (t.sil > 0 \/ t.have)
    /\ UNCHANGED <<src_data, m_lead_in, m_lead_out, m_gap, sil_out, sil_s, sil_stopped>>
    /\ UNCHANGED <<spl_vars, ad_vars, env_vars, trk_vars,
                   nm_vars, wav_vars, node_vars, lcd_vars, ed_vars, rs_vars, rv_vars, chn_vars>>

\* silencer::next.
silencer_next ==
    LET t == topped_up IN
    /\ src_pos' = t.pos
    /\ m_state' = t.state
    /\ m_unsilent_sample' = t.smp
    /\ sil_op' = "next"
    /\ IF t.sil > 0
       THEN \* Buffered silence is always output first.
            /\ m_buffered_silence' = t.sil - 1
            /\ m_have_unsilent_sample' = t.have
            /\ sil_s' = 0
            /\ sil_ret' = TRUE
            /\ sil_out' = Append(sil_out, 0)
            /\ UNCHANGED sil_stopped
       ELSE IF t.have
       THEN \* Output any non-silent sample.
            /\ m_buffered_silence' = t.sil
            /\ m_have_unsilent_sample' = FALSE
            /\ sil_s' = t.smp
            /\ sil_ret' = TRUE
            /\ sil_out' = Append(sil_out, t.smp)
            /\ UNCHANGED sil_stopped
       ELSE \* No longer running.
            /\ m_buffered_silence' = t.sil
            /\ m_have_unsilent_sample' = t.have
            /\ sil_s' = 0
            /\ sil_ret' = FALSE
            /\ sil_stopped' = TRUE
            /\ UNCHANGED sil_out
    /\ UNCHANGED <<src_data, m_lead_in, m_lead_out, m_gap>>
    /\ UNCHANGED <<spl_vars, ad_vars, env_vars, trk_vars,
                   nm_vars, wav_vars, node_vars, lcd_vars, ed_vars, rs_vars, rv_vars, chn_vars>>

\* No splitter exists.
SplitterIdle ==
    /\ spl_src = <<>>
    /\ spl_pos = 0
    /\ spl_calls = 0
    /\ spl_src_alive = FALSE
    /\ parent_alive = FALSE
    /\ parent_refs = 0
    /\ m_child_streams = <<>>
    /\ child = [c \in Children |-> "none"]
    /\ m_buffer = [c \in Children |-> <<>>]
    /\ spl_got = [c \in Children |-> <<>>]
    /\ spl_attach = [c \in Children |-> 0]
    /\ spl_op = <<"none", 0>>

\* No track player exists.
TrackIdle ==
    /\ trk_data = <<>>
    /\ trk_beats_per_minute = 0
    /\ trk_ticks_per_beat = 0
    /\ trk_repeat = FALSE
    /\ trk_repeat_start = 0
    /\ trk_instrument = <<>>
    /\ m_track_volume = 0
    /\ m_pan_offset = 0
    /\ m_unit_pitch_bend = 0
    /\ m_position = 0
    /\ m_caller_ticks_per_minute = 0
    /\ m_track_ticks_per_minute = 0
    /\ m_tick_position = 0
    /\ m_tick_fraction = 0
    /\ m_next_event_time = 0
    /\ tp_play_count = 0
    /\ m_channels = <<>>
    /\ tp_plays = 0
    /\ tp_calls = 0
    /\ tp_ticks = 0
    /\ tp_applied = <<>>
    /\ tp_ret = TRUE
    /\ tp_err = FALSE
    /\ tp_hung = FALSE
    /\ ms_op = <<"none", 0>>

\* No envelope exists.
EnvelopeIdle ==
    /\ spu_ads = 0
    /\ spu_sr = 0
    /\ m_phase = 0
    /\ m_volume = 0
    /\ m_cycle_repeats = 1
    /\ m_cycle_wait = 1
    /\ m_cycle_current_wait = 1
    /\ m_cycle_step = 0
    /\ env_op = "none"
    /\ env_out = 0
    /\ env_ret = TRUE
    /\ env_released = FALSE

\* No ADPCM decoder exists.
AdpcmIdle ==
    /\ m_data = <<>>
    /\ m_play_count = 0
    /\ m_current = -1
    /\ m_repeat = -1
    /\ m_s0 = 0
    /\ m_s1 = 0
    /\ adpcm_buffer = <<>>
    /\ m_buffer_next = 0
    /\ ad_plays = 0
    /\ ad_count = 0
    /\ ad_ret = TRUE
    /\ ad_s = 0
    /\ ad_err = FALSE
    /\ ad_filter = 0

\* No LCD file is loaded.
LcdIdle ==
    /\ m_patches = <<>>
    /\ rp_before = <<>>
    /\ rp_thrown = 0
    /\ rp_done = FALSE

\* No ADPCM data is being edited.
EditIdle ==
    /\ ed_adpcm = <<>>
    /\ ed_silence_start = 0
    /\ ed_remove_end = 0
    /\ ed_before = <<>>
    /\ ed_outside = FALSE
    /\ ed_done = FALSE

\* No volume, filter, statistics, reverb or channel module exists.
NodeIdle ==
    /\ node_kind = "none"
    /\ node_src = <<>>
    /\ node_st = [pos |-> 0, calls |-> 0]
    /\ node_src2 = <<>>
    /\ node_st2 = [pos |-> 0, calls |-> 0]
    /\ m_level = 0
    /\ m_x1 = 0
    /\ m_x2 = 0
    /\ m_y1 = 0
    /\ m_y2 = 0
    /\ m_resampler = FALSE
    /\ st_m_samples = 0
    /\ node_out = <<>>
    /\ node_ret = TRUE
    /\ node_calls = 0

\* No WAV file is being written.
WavIdle ==
    /\ wav_root = <<>>
    /\ wav_root_pos = 0
    /\ wav_state = "none"
    /\ wav_m_samples = 0
    /\ wav_data = <<>>
    /\ wav_pulls = <<>>

\* No normalizer exists.
NormalizerIdle ==
    /\ nm_src = <<>>
    /\ nm_src_throws = 0
    /\ nm_src_pos = 0
    /\ m_temp_file = "none"
    /\ m_temp_file_created = FALSE
    /\ m_normalization = <<0, 1>>
    /\ m_samples = 0
    /\ m_current_sample = 0
    /\ nm_file_exists = FALSE
    /\ nm_file = <<>>
    /\ nm_pulls = <<>>
    /\ nm_out = <<>>
    /\ nm_ret = TRUE
    /\ nm_err = FALSE
    /\ nm_destroyed = FALSE

\* No silencer is in use.
SilencerIdle ==
    /\ src_data = <<>>
    /\ src_pos = 0
    /\ m_lead_in = -1
    /\ m_lead_out = -1
    /\ m_gap = -1
    /\ m_state = "lead_in"
    /\ m_buffered_silence = 0
    /\ m_have_unsilent_sample = FALSE
    /\ m_unsilent_sample = 0
    /\ sil_out = <<>>
    /\ sil_op = "none"
    /\ sil_ret = TRUE
    /\ sil_s = 0
    /\ sil_stopped = FALSE

\* A silencer straight after construction, over any source and settings.
SilencerInit ==
    /\ src_data \in SeqsUpTo(Samples, MaxSrcLen)
    /\ src_pos = 0
    /\ m_lead_in \in -1..MaxLead
    /\ m_lead_out \in -1..MaxLead
    /\ m_gap \in {-1} \cup 1..MaxGap
    /\ m_state = "lead_in"
    /\ m_buffered_silence = 0
    /\ m_have_unsilent_sample = FALSE
    /\ m_unsilent_sample = 0
    /\ sil_out = <<>>
    /\ sil_op = "none"
    /\ sil_ret = TRUE
    /\ sil_s = 0
    /\ sil_stopped = FALSE
    /\ SplitterIdle
    /\ AdpcmIdle
    /\ EnvelopeIdle
    /\ TrackIdle
    /\ NormalizerIdle
    /\ WavIdle
    /\ NodeIdle
    /\ LcdIdle
    /\ EditIdle
    /\ ResamplerIdle
    /\ ReverbIdle
    /\ ChannelIdle

SilencerNext == silencer_next \/ silencer_is_running

SilencerSpec == SilencerInit /\ [][SilencerNext]_vars

\* ---------------------------------------------------------------- splitter

\* The sample values the splitter's source draws from.
SplSamples == {1, 2}

\* A copy that does not count: the new splitter holds the parent without
\* sharing its ownership.
shared_ptr_copy_uncounted(refs) == refs

\* std::shared_ptr: one more owner.
shared_ptr_copy(refs) == refs + 1

\* std::shared_ptr: one owner less.
shared_ptr_release(refs) == refs - 1

\* attach_child with the push_back to the list left out.
attach_child_dropped(list, c) == list

\* splitter_parent::attach_child.
attach_child(list, c) == Append(list, c)

\* splitter_parent::detach_child.
detach_child(list, c) == SelectSeq(list, LAMBDA d : d # c)

\* feed_children handing the sample to the first attached child only.
buffer_data_first_only(list, bufs, s) ==
    [d \in Children |->
        IF list # <<>> /\ d = list[1] THEN Append(bufs[d], s) ELSE bufs[d]]

\* The for_each of feed_children: buffer_data(s) on every attached child.
buffer_data_all(list, bufs, s) ==
    [d \in Children |->
        IF \E i \in 1..Len(list) : list[i] = d THEN Append(bufs[d], s) ELSE bufs[d]]

\* The buffers after splitter_parent::feed_children: the source's next() is
\* called once, and its sample, if it gave one, is buffered.
feed_children(bufs) ==
    IF spl_pos < Len(spl_src)
    THEN buffer_data_all(m_child_streams, bufs, spl_src[spl_pos + 1])
    ELSE bufs

\* must_feed asking the parent on every call.
must_feed_always(buf) == TRUE

\* Whether a splitter's next() has to ask the parent for data.
must_feed(buf) == buf = <<>>

\* splitter::next on splitter c.
splitter_next(c) ==
    /\ child[c] = "alive"
    /\ Len(spl_got[c]) < MaxPulls
    /\ LET fed == must_feed(m_buffer[c])
           gave == fed /\ spl_pos < Len(spl_src)
           bufs == IF fed THEN feed_children(m_buffer) ELSE m_buffer
       IN /\ spl_calls' = IF fed THEN spl_calls + 1 ELSE spl_calls
          /\ spl_pos' = IF gave THEN spl_pos + 1 ELSE spl_pos
          /\ IF bufs[c] = <<>>
             THEN /\ m_buffer' = bufs
                  /\ spl_got' = [spl_got EXCEPT ![c] = Append(@, <<0, FALSE>>)]
             ELSE /\ m_buffer' = [bufs EXCEPT ![c] = Tail(@)]
                  /\ spl_got' = [spl_got EXCEPT ![c] = Append(@, <<Head(bufs[c]), TRUE>>)]
    /\ spl_op' = <<"next", c>>
    /\ UNCHANGED <<spl_src, spl_src_alive, parent_alive, parent_refs,
                   m_child_streams, child, spl_attach>>
    /\ UNCHANGED <<sil_vars, ad_vars, env_vars, trk_vars,
                   nm_vars, wav_vars, node_vars, lcd_vars, ed_vars, rs_vars, rv_vars, chn_vars>>

\* splitter::split on splitter c: the new splitter copies the shared_ptr and
\* attaches itself to the parent.
splitter_split(c) ==
    /\ child[c] = "alive"
    /\ \E n \in Children :
        /\ child[n] = "none"
        /\ \A k \in Children : k < n => child[k] # "none"
        /\ child' = [child EXCEPT ![n] = "alive"]
        /\ m_child_streams' = attach_child(m_child_streams, n)
        /\ spl_attach' = [spl_attach EXCEPT ![n] = spl_pos]
        /\ spl_op' = <<"split", n>>
    /\ parent_refs' = shared_ptr_copy(parent_refs)
    /\ UNCHANGED <<spl_src, spl_pos, spl_calls, spl_src_alive, parent_alive,
                   m_buffer, spl_got>>
    /\ UNCHANGED <<sil_vars, ad_vars, env_vars, trk_vars,
                   nm_vars, wav_vars, node_vars, lcd_vars, ed_vars, rs_vars, rv_vars, chn_vars>>

\* splitter::~splitter on splitter c: it detaches itself, then its members
\* go: the buffer and its share of the parent.  The parent, and with it the
\* source, is deleted when the last share goes.
splitter_destroy(c) ==
    /\ child[c] = "alive"
    /\ child' = [child EXCEPT ![c] = "destroyed"]
    /\ m_child_streams' = detach_child(m_child_streams, c)
    /\ m_buffer' = [m_buffer EXCEPT ![c] = <<>>]
    /\ parent_refs' = shared_ptr_release(parent_refs)
    /\ parent_alive' = (parent_refs' > 0)
    /\ spl_src_alive' = (parent_refs' > 0)
    /\ spl_got' = [spl_got EXCEPT ![c] = <<>>]
    /\ spl_attach' = [spl_attach EXCEPT ![c] = 0]
    /\ spl_op' = <<"destroy", c>>
    /\ UNCHANGED <<spl_src, spl_pos, spl_calls>>
    /\ UNCHANGED <<sil_vars, ad_vars, env_vars, trk_vars,
                   nm_vars, wav_vars, node_vars, lcd_vars, ed_vars, rs_vars, rv_vars, chn_vars>>

\* The first splitter straight after construction over any source: it made
\* the parent, which took the source, and attached itself.
SplitterInit ==
    /\ spl_src \in SeqsUpTo(SplSamples, MaxSplSrcLen)
    /\ spl_pos = 0
    /\ spl_calls = 0
    /\ spl_src_alive = TRUE
    /\ parent_alive = TRUE
    /\ parent_refs = 1
    /\ m_child_streams = attach_child(<<>>, 1)
    /\ child = [c \in Children |-> IF c = 1 THEN "alive" ELSE "none"]
    /\ m_buffer = [c \in Children |-> <<>>]
    /\ spl_got = [c \in Children |-> <<>>]
    /\ spl_attach = [c \in Children |-> 0]
    /\ spl_op = <<"none", 0>>
    /\ SilencerIdle
    /\ AdpcmIdle
    /\ EnvelopeIdle
    /\ TrackIdle
    /\ NormalizerIdle
    /\ WavIdle
    /\ NodeIdle
    /\ LcdIdle
    /\ EditIdle
    /\ ResamplerIdle
    /\ ReverbIdle
    /\ ChannelIdle

SplitterNext ==
    \/ \E c \in Children : splitter_next(c)
    \/ \E c \in Children : splitter_split(c)
    \/ \E c \in Children : splitter_destroy(c)

SplitterSpec == SplitterInit /\ [][SplitterNext]_vars

\* ------------------------------------------------------------------- adpcm

\* Number of bytes per ADPCM encoded data block.
PSXDMH_ADPCM_BLOCK_SIZE == 16

\* Number of audio samples generated from each data block.
PSXDMH_ADPCM_SAMPLES_PER_BLOCK == 28

SHRT_MIN == -32768

SHRT_MAX == 32767

\* Tables used to decode ADPCM data, indexed from 0.
m_pos_table == <<0, 60, 115, 98, 122>>

m_neg_table == <<0, 0, -52, -55, -60>>

\* Flag bytes, byte 1 of a block: bit 0 final, bits 0 and 1 repeat jump,
\* bit 2 repeat start.
FlagBytes == {0, 1, 3, 4, 5, 7}

\* Bytes 0: filter in the high nybble, shift in the low one.
HeaderBytes == {0, 27}

\* Bytes 0 whose filter has no table entry.
CorruptHeaderBytes == {80}

\* Data bytes.
DataBytes == {0, 23}

\* Bit k (of weight w = 2^k) of a byte.
bit_set(byte, w) == (byte \div w) % 2 = 1

\* adpcm::is_repeat_start: (block[1] & 0x04) == 0x04.
is_repeat_start(block) == bit_set(block.b1, 4)

\* adpcm::is_final: (block[1] & 0x01) == 0x01.
is_final(block) == bit_set(block.b1, 1)

\* adpcm::is_repeat_jump: (block[1] & 0x03) == 0x03.
is_repeat_jump(block) == bit_set(block.b1, 1) /\ bit_set(block.b1, 2)

\* adpcm::is_buffer_empty.
is_buffer_empty(buffer_next) == buffer_next >= PSXDMH_ADPCM_SAMPLES_PER_BLOCK

\* decrement_play_count that leaves every count as it is.
decrement_play_count_kept(count) == count

\* adpcm::decrement_play_count.
decrement_play_count(count) == IF count > 0 THEN count - 1 ELSE count

\* clamp(s, SHRT_MIN, SHRT_MAX).
clamp16(s) == IF s < SHRT_MIN THEN SHRT_MIN ELSE IF s > SHRT_MAX THEN SHRT_MAX ELSE s

\* 2^n.
RECURSIVE pow2(_)
pow2(n) == IF n = 0 THEN 1 ELSE 2 * pow2(n - 1)

\* A data nybble n placed in the high half of an int8_t.
nybble_int8(n) == IF n < 8 THEN 16 * n ELSE 16 * (n - 16)

\* The nybble decoded at position i of a block: the low nybble of data byte
\* i / 2 for even i, its high nybble for odd i.
nybble_at(d, i) == nybble_int8(IF i % 2 = 0 THEN d % 16 ELSE d \div 16)

\* The block at a byte offset of the data.
block_at(data, offset) == data[(offset \div PSXDMH_ADPCM_BLOCK_SIZE) + 1]

\* table[filter].  The filter check of decode_block keeps the index inside
\* the table; a read past its end, which ad_filter would show, is not
\* followed further and counts as 0.
table_entry(table, filter) == IF filter < Len(table) THEN table[filter + 1] ELSE 0

\* The decoding loop of decode_block from sample i on: the buffer and the
\* two previous samples.  Shifts of negative values are arithmetic.
RECURSIVE decode_from(_, _, _, _, _, _, _)
decode_from(i, buf, s0, s1, filter, shift, d) ==
    IF i >= PSXDMH_ADPCM_SAMPLES_PER_BLOCK
    THEN [buffer |-> buf, s0 |-> s0, s1 |-> s1]
    ELSE LET raw == (nybble_at(d, i) * 256) \div pow2(shift)
             pred == (s0 * table_entry(m_pos_table, filter)
                      + s1 * table_entry(m_neg_table, filter) + 32) \div 64
             s == clamp16(raw + pred)
         IN decode_from(i + 1, Append(buf, s), s, s0, filter, shift, d)

\* bad_filter taking the table size itself for a good index.
bad_filter_off_by_one(block) == block.b0 \div 16 > Len(m_pos_table)

\* Whether decode_block throws "Corrupt ADPCM block (bad filter)."
bad_filter(block) == block.b0 \div 16 >= Len(m_pos_table)

\* repeat_after keeping the first repeat point it found.
repeat_after_first(block, current, repeat) ==
    IF is_repeat_start(block) /\ repeat < 0 THEN current ELSE repeat

\* The repeat point after decode_block.
repeat_after(block, current, repeat) == IF is_repeat_start(block) THEN current ELSE repeat

\* stop_at_final without the test of the repeat jump flag.
stop_at_final_unflagged(block, repeat, play_count) ==
    repeat < 0 \/ play_count = 1

\* Whether next_block stops at a final block instead of repeating.
stop_at_final(block, repeat, play_count) ==
    ~is_repeat_jump(block) \/ repeat < 0 \/ play_count = 1

\* adpcm::next_block: the new m_current and m_play_count.
next_block(block, current, repeat, play_count) ==
    IF is_final(block)
    THEN IF stop_at_final(block, repeat, play_count)
         THEN [current |-> -1, play_count |-> play_count]
         ELSE [current |-> repeat, play_count |-> decrement_play_count(play_count)]
    ELSE [current |-> current + PSXDMH_ADPCM_BLOCK_SIZE, play_count |-> play_count]

\* adpcm::repeat_offset from a block offset downwards.
RECURSIVE repeat_offset_from(_, _)
repeat_offset_from(data, offset) ==
    IF offset < 0 THEN -1
    ELSE IF is_repeat_start(block_at(data, offset)) THEN offset
    ELSE repeat_offset_from(data, offset - PSXDMH_ADPCM_BLOCK_SIZE)

\* adpcm::repeat_offset.
repeat_offset(data) ==
    LET last == Len(data) * PSXDMH_ADPCM_BLOCK_SIZE - PSXDMH_ADPCM_BLOCK_SIZE
    IN IF is_repeat_jump(block_at(data, last))
       THEN repeat_offset_from(data, last)
       ELSE -1

\* adpcm::next.
adpcm_next ==
    /\ ad_count < MaxCalls
    /\ IF is_buffer_empty(m_buffer_next) /\ m_current < 0
       THEN \* The audio data has been exhausted.
            /\ ad_s' = 0
            /\ ad_ret' = FALSE
            /\ ad_err' = FALSE
            /\ UNCHANGED <<m_play_count, m_current, m_repeat, m_s0, m_s1,
                           adpcm_buffer, m_buffer_next, ad_count, ad_filter>>
       ELSE IF is_buffer_empty(m_buffer_next) /\ bad_filter(block_at(m_data, m_current))
       THEN \* decode_block throws before anything is changed.
            /\ ad_err' = TRUE
            /\ UNCHANGED <<m_play_count, m_current, m_repeat, m_s0, m_s1,
                           adpcm_buffer, m_buffer_next, ad_count, ad_ret, ad_s,
                           ad_filter>>
       ELSE IF is_buffer_empty(m_buffer_next)
       THEN \* Decode the current block and move on to the next.
            LET block == block_at(m_data, m_current)
                dec == decode_from(0, <<>>, m_s0, m_s1, block.b0 \div 16, block.b0 % 16, block.d)
                rep == repeat_after(block, m_current, m_repeat)
                nb == next_block(block, m_current, rep, m_play_count)
            IN /\ m_repeat' = rep
               /\ adpcm_buffer' = dec.buffer
               /\ m_s0' = dec.s0
               /\ m_s1' = dec.s1
               /\ m_current' = nb.current
               /\ m_play_count' = nb.play_count
               /\ m_buffer_next' = 1
               /\ ad_s' = dec.buffer[1]
               /\ ad_ret' = TRUE
               /\ ad_err' = FALSE
               /\ ad_count' = ad_count + 1
               /\ ad_filter' = block.b0 \div 16
       ELSE \* Extract the next sample from the buffer.
            /\ m_buffer_next' = m_buffer_next + 1
            /\ ad_s' = adpcm_buffer[m_buffer_next + 1]
            /\ ad_ret' = TRUE
            /\ ad_err' = FALSE
            /\ ad_count' = ad_count + 1
            /\ UNCHANGED <<m_play_count, m_current, m_repeat, m_s0, m_s1, adpcm_buffer,
                           ad_filter>>
    /\ UNCHANGED <<m_data, ad_plays>>
    /\ UNCHANGED <<sil_vars, spl_vars, env_vars, trk_vars,
                   nm_vars, wav_vars, node_vars, lcd_vars, ed_vars, rs_vars, rv_vars, chn_vars>>

\* The streams the decoder is built over: at least one block, the last one
\* flagged final; the blocks share their data bytes and their byte 0, but
\* for blocks that are corrupt.
AdpcmStreams ==
    {s \in SeqsUpTo([b0 : HeaderBytes \cup CorruptHeaderBytes, b1 : FlagBytes, d : DataBytes],
                    MaxBlocks) :
        /\ Len(s) >= 1
        /\ is_final(s[Len(s)])
        /\ \A i \in 1..Len(s) : s[i].d = s[1].d
        /\ \E h \in HeaderBytes : \A i \in 1..Len(s) : s[i].b0 \in {h} \cup CorruptHeaderBytes}

\* A decoder straight after construction.
AdpcmInit ==
    /\ m_data \in AdpcmStreams
    /\ m_play_count \in 0..MaxPlayCount
    /\ ad_plays = m_play_count
    /\ m_current = 0
    /\ m_repeat = -1
    /\ m_s0 = 0
    /\ m_s1 = 0
    /\ adpcm_buffer = <<>>
    /\ m_buffer_next = PSXDMH_ADPCM_SAMPLES_PER_BLOCK
    /\ ad_count = 0
    /\ ad_ret = TRUE
    /\ ad_s = 0
    /\ ad_err = FALSE
    /\ ad_filter = 0
    /\ SilencerIdle
    /\ SplitterIdle
    /\ EnvelopeIdle
    /\ TrackIdle
    /\ NormalizerIdle
    /\ WavIdle
    /\ NodeIdle
    /\ LcdIdle
    /\ EditIdle
    /\ ResamplerIdle
    /\ ReverbIdle
    /\ ChannelIdle

AdpcmNext == adpcm_next

AdpcmSpec == AdpcmInit /\ [][AdpcmNext]_vars

\* ---------------------------------------------------------------- envelope

\* enum phase.
ep_attack == 0

ep_decay == 1

ep_sustain == 2

ep_release == 3

ep_stopped == 4

\* The top of the volume range, 0x7fff.
VolumeMax == 32767

\* (reg >> shift) & mask, mask + 1 being a power of two.
reg_bits(reg, shift, mask) == (reg \div pow2(shift)) % (mask + 1)

\* The sustain target with levels that can be reached.
sustain_target_reachable(increase) == IF increase THEN VolumeMax ELSE 0

\* The dummy target of the sustain phase: 0x8000 or -1.
sustain_target(increase) == IF increase THEN 32768 ELSE -1

\* m_config[phase] as the constructor sets it from the registers.
config_of(ads, sr, phase) ==
    IF phase = ep_attack
    THEN [exponential |-> reg_bits(ads, 15, 1) # 0,
          increase |-> TRUE,
          shift |-> reg_bits(ads, 10, 31),
          step |-> 7 - reg_bits(ads, 8, 3),
          target |-> VolumeMax]
    ELSE IF phase = ep_decay
    THEN [exponential |-> TRUE,
          increase |-> FALSE,
          shift |-> reg_bits(ads, 4, 15),
          step |-> -8,
          target |-> (reg_bits(ads, 0, 15) + 1) * 2048]
    ELSE IF phase = ep_sustain
    THEN LET inc == reg_bits(sr, 14, 1) = 0
         IN [exponential |-> reg_bits(sr, 15, 1) # 0,
             increase |-> inc,
             shift |-> reg_bits(sr, 8, 31),
             step |-> IF inc THEN 7 - reg_bits(sr, 6, 3) ELSE -8 + reg_bits(sr, 6, 3),
             target |-> sustain_target(inc)]
    ELSE [exponential |-> reg_bits(sr, 5, 1) # 0,
          increase |-> FALSE,
          shift |-> reg_bits(sr, 0, 31),
          step |-> -8,
          target |-> 0]

\* clamp without its lower bound.
clamp_volume_unfloored(v) == IF v > VolumeMax THEN VolumeMax ELSE v

\* clamp(volume, 0, 0x7fff).
clamp_volume(v) == IF v < 0 THEN 0 ELSE IF v > VolumeMax THEN VolumeMax ELSE v

\* The exponential decrease with a division that rounds towards zero.
exponential_step_truncated(step, volume) == -((-(step * volume)) \div 32768)

\* The step of an exponential decrease: (m_cycle_step * m_volume) >> 15, the
\* shift being arithmetic.
exponential_step(step, volume) == (step * volume) \div 32768

\* The while loop of calculate_cycle: wait and step are halved, and repeats
\* doubled, for as long as both are even and the step is not 0.
RECURSIVE decompose(_, _, _)
decompose(repeats, wait, step) ==
    IF wait % 2 = 0 /\ step # 0 /\ step % 2 = 0
    THEN decompose(repeats * 2, wait \div 2, step \div 2)
    ELSE [repeats |-> repeats, wait |-> wait, step |-> step]

Max(a, b) == IF a > b THEN a ELSE b

\* envelope::calculate_cycle for a phase's configuration at a volume: the new
\* m_cycle_repeats, m_cycle_wait and m_cycle_step.  With a shift of at most 31
\* and a step of at most 8 in size the wait is at most 2^22, the step at most
\* 2^14 in size and its product with a volume below 2^29, so no 32 bit value
\* wraps.
calculate_cycle(config, volume) ==
    LET wait0 == pow2(Max(config.shift - 11, 0))
        step0 == config.step * pow2(Max(11 - config.shift, 0))
        wait1 == IF config.exponential /\ config.increase /\ volume > 24576
                 THEN wait0 * 4
                 ELSE wait0
        step1 == IF config.exponential /\ ~config.increase
                 THEN exponential_step(step0, volume)
                 ELSE step0
    IN decompose(1, wait1, step1)

\* The target test with strict comparisons.
target_reached_strict(config, volume) ==
    IF config.increase THEN volume > config.target ELSE volume < config.target

\* Whether a phase's target level has been reached.
target_reached(config, volume) ==
    IF config.increase THEN volume >= config.target ELSE volume <= config.target

\* envelope::next.
envelope_next ==
    /\ env_op' = "next"
    /\ env_out' = m_volume
    /\ env_ret' = (m_phase # ep_stopped)
    /\ IF m_phase = ep_stopped
       THEN UNCHANGED <<m_phase, m_volume, m_cycle_repeats, m_cycle_wait,
                        m_cycle_current_wait, m_cycle_step>>
       ELSE IF (m_cycle_current_wait - 1) # 0
       THEN /\ m_cycle_current_wait' = (m_cycle_current_wait - 1)
            /\ UNCHANGED <<m_phase, m_volume, m_cycle_repeats, m_cycle_wait, m_cycle_step>>
       ELSE LET volume == clamp_volume(m_volume + m_cycle_step)
            IN /\ m_volume' = volume
               /\ IF (m_cycle_repeats - 1) > 0
                  THEN \* Repeat the same wait and step.
                       /\ m_cycle_repeats' = (m_cycle_repeats - 1)
                       /\ m_cycle_current_wait' = m_cycle_wait
                       /\ UNCHANGED <<m_phase, m_cycle_wait, m_cycle_step>>
                  ELSE \* Begin a new cycle, in the next phase when the
                       \* target level is reached.
                       LET phase == IF target_reached(config_of(spu_ads, spu_sr, m_phase), volume)
                                    THEN m_phase + 1
                                    ELSE m_phase
                           cycle == calculate_cycle(config_of(spu_ads, spu_sr, phase), volume)
                       IN /\ m_phase' = phase
                          /\ IF phase # ep_stopped
                             THEN /\ m_cycle_repeats' = cycle.repeats
                                  /\ m_cycle_wait' = cycle.wait
                                  /\ m_cycle_step' = cycle.step
                                  /\ m_cycle_current_wait' = cycle.wait
                             ELSE /\ m_cycle_repeats' = (m_cycle_repeats - 1)
                                  /\ m_cycle_current_wait' = (m_cycle_current_wait - 1)
                                  /\ UNCHANGED <<m_cycle_wait, m_cycle_step>>
    /\ UNCHANGED <<spu_ads, spu_sr, env_released>>
    /\ UNCHANGED <<sil_vars, spl_vars, ad_vars, trk_vars,
                   nm_vars, wav_vars, node_vars, lcd_vars, ed_vars, rs_vars, rv_vars, chn_vars>>

\* envelope::release.
envelope_release ==
    /\ env_op' = "release"
    /\ env_released' = TRUE
    /\ IF m_phase # ep_stopped
       THEN LET cycle == calculate_cycle(config_of(spu_ads, spu_sr, ep_release), m_volume)
            IN /\ m_phase' = ep_release
               /\ m_cycle_repeats' = cycle.repeats
               /\ m_cycle_wait' = cycle.wait
               /\ m_cycle_step' = cycle.step
               /\ m_cycle_current_wait' = cycle.wait
       ELSE UNCHANGED <<m_phase, m_cycle_repeats, m_cycle_wait, m_cycle_current_wait,
                        m_cycle_step>>
    /\ UNCHANGED <<spu_ads, spu_sr, m_volume, env_out, env_ret>>
    /\ UNCHANGED <<sil_vars, spl_vars, ad_vars, trk_vars,
                   nm_vars, wav_vars, node_vars, lcd_vars, ed_vars, rs_vars, rv_vars, chn_vars>>

\* The register pairs (spu_ads, spu_sr) envelopes are built from:
\*   0x0000 0x0000  everything linear, every shift 0
\*   0x8FFF 0x0000  exponential attack, decay of shift 15 to level 0x8000
\*   0x0000 0x000C  linear release of shift 12 (waits of 2 ticks)
\*   0x0000 0xC023  exponential sustain decrease, exponential release, shift 3
\*   0x8FFF 0x0020  exponential release of shift 0
\*   0x030F 0x40C0  slowest attack step, highest sustain level, linear sustain decrease
RegisterPairs ==
    {<<0, 0>>, <<36863, 0>>, <<0, 12>>, <<0, 49187>>, <<36863, 32>>, <<783, 16576>>}

\* An envelope straight after construction.
EnvelopeInit ==
    /\ \E pair \in RegisterPairs :
           /\ spu_ads = pair[1]
           /\ spu_sr = pair[2]
    /\ m_phase = ep_attack
    /\ m_volume = 0
    /\ m_cycle_repeats = 1
    /\ m_cycle_wait = 1
    /\ m_cycle_current_wait = 1
    /\ m_cycle_step = 0
    /\ env_op = "none"
    /\ env_out = 0
    /\ env_ret = TRUE
    /\ env_released = FALSE
    /\ SilencerIdle
    /\ SplitterIdle
    /\ AdpcmIdle
    /\ TrackIdle
    /\ NormalizerIdle
    /\ WavIdle
    /\ NodeIdle
    /\ LcdIdle
    /\ EditIdle
    /\ ResamplerIdle
    /\ ReverbIdle
    /\ ChannelIdle

EnvelopeNext == envelope_next \/ envelope_release

EnvelopeSpec == EnvelopeInit /\ [][EnvelopeNext]_vars

\* The envelope of registers 0x8FFF/0x0000 straight after construction.
AttackOnlyInit ==
    /\ EnvelopeInit
    /\ spu_ads = 36863
    /\ spu_sr = 0

\* The envelope of registers 0x8FFF/0x0000 in a voice that keeps being
\* pulled: next() is called again and again, release() if and when the
\* track says so.
AttackOnlySpec == AttackOnlyInit /\ [][EnvelopeNext]_vars /\ WF_vars(envelope_next)

\* ------------------------------------------- music stream and track player

\* Most next() calls made on a player, and most events one call is followed
\* through: more than any call that returns applies.
MaxTrackCalls == (3 * MaxPlayCount * (MaxEvents + 1)) \div 2 + 4

MaxEventsPerCall == (MaxPlayCount + 2) * (MaxEvents + 1)

\* music_stream::get_delta from offset pos with delta accumulated so far:
\* whether the bytes were there, the delta and the offset after it.
RECURSIVE get_delta_from(_, _, _)
get_delta_from(data, pos, delta) ==
    IF pos + 1 > Len(data)
    THEN [ok |-> FALSE, delta |-> delta, pos |-> pos]
    ELSE LET byte == data[pos + 1]
             d == delta * 128 + (byte % 128)
         IN IF byte >= 128
            THEN get_delta_from(data, pos + 1, d)
            ELSE [ok |-> TRUE, delta |-> d, pos |-> pos + 1]

get_delta(data, pos) == get_delta_from(data, pos, 0)

\* music_stream::get_word: the two bytes at pos in little-endian order.
get_word(data, pos) == data[pos + 1] + 256 * data[pos + 2]

\* The event code of a code byte, "" for a byte that is none.
event_code(byte) ==
    CASE byte = 17 -> "note_on"
      [] byte = 18 -> "note_off"
      [] byte = 7 -> "set_instrument"
      [] byte = 9 -> "pitch_bend"
      [] byte = 12 -> "volume"
      [] byte = 13 -> "pan_offset"
      [] byte = 35 -> "set_marker"
      [] byte = 32 -> "jump_to_marker"
      [] byte = 11 -> "unknown_0b"
      [] byte = 14 -> "unknown_0e"
      [] byte = 34 -> "eos"
      [] OTHER -> ""

\* The number of parameter bytes get_event reads after a code byte.
event_size(code) ==
    CASE code = "note_on" -> 2
      [] code \in {"note_off", "volume", "pan_offset", "unknown_0b", "unknown_0e"} -> 1
      [] code \in {"set_instrument", "pitch_bend", "jump_to_marker"} -> 2
      [] OTHER -> 0

\* music_stream::is_running.
stream_is_running(data, pos) == pos < Len(data)

\* have_event with a strict comparison.
have_event_late(data, pos, next_event_time, tick_position) ==
    stream_is_running(data, pos) /\ next_event_time < tick_position

\* music_stream::have_event.
have_event(data, pos, next_event_time, tick_position) ==
    stream_is_running(data, pos) /\ next_event_time <= tick_position

\* music_stream::get_event when an event is due: whether the event could be
\* read, its code and parameters, and the stream's new m_position and
\* m_next_event_time.  A read that throws leaves m_position after the bytes
\* read before it: get_byte steps over one byte at a time, get_word over two
\* at once.
get_event(data, pos, next_event_time) ==
    LET code == event_code(data[pos + 1])
        size == event_size(code)
        after == IF code = "eos" THEN Len(data) ELSE pos + 1 + size
        read == code # "" /\ pos + 1 + size <= Len(data)
        word == get_word(data, pos + 1)
        data_0 == CASE code = "note_on" -> data[pos + 2]
                    [] size = 1 -> data[pos + 2]
                    [] code = "pitch_bend" -> IF word >= 32768 THEN word - 65536 ELSE word
                    [] size = 2 -> word
                    [] code = "set_marker" -> pos
                    [] OTHER -> 0
        data_1 == IF code = "note_on" THEN data[pos + 3] ELSE 0
        delta == get_delta(data, after)
        thrown_at == IF code \in {"", "set_instrument", "pitch_bend", "jump_to_marker"}
                     THEN pos + 1
                     ELSE Len(data)
    IN IF ~read
       THEN [ok |-> FALSE, code |-> code, at |-> pos, data_0 |-> 0, data_1 |-> 0,
             pos |-> thrown_at, next_event_time |-> next_event_time]
       ELSE IF after < Len(data)
       THEN [ok |-> delta.ok, code |-> code, at |-> pos, data_0 |-> data_0, data_1 |-> data_1,
             pos |-> delta.pos,
             next_event_time |-> IF delta.ok
                                 THEN next_event_time + delta.delta
                                 ELSE next_event_time]
       ELSE [ok |-> TRUE, code |-> code, at |-> pos, data_0 |-> data_0, data_1 |-> data_1,
             pos |-> after, next_event_time |-> next_event_time]

\* The while loop of music_stream::tick.
RECURSIVE tick_loop(_, _, _)
tick_loop(fraction, position, caller) ==
    IF fraction >= caller
    THEN tick_loop(fraction - caller, position + 1, caller)
    ELSE [fraction |-> fraction, position |-> position]

\* music_stream::tick: the new m_tick_fraction and m_tick_position.
tick(fraction, position, track, caller) == tick_loop(fraction + track, position, caller)

\* The sub-instrument the notes of the tracks are played with: its volume,
\* tuning, pan and bend sensitivity, the number of samples its patch gives
\* (-1 for a patch that repeats), and the number of next() calls its
\* envelope stays running for once released, its release taking one cycle of
\* that many ticks.
PlainInstrument ==
    [volume |-> 127, tuning |-> 60, pan |-> 64, bend_sensitivity |-> 12, samples |-> -1,
     release |-> 1]

\* The frequencies 44100 * 2^(k / 12) of the notes k = 0..13 semitones above
\* a tuning, rounded to the nearest integer.
SemitoneFrequencies ==
    <<44100, 46722, 49501, 52444, 55563, 58866, 62367, 66075, 70004, 74167, 78577, 83250,
      88200, 93445>>

\* wmd_file::note_to_frequency for a sub-instrument without fine tuning, a
\* note at or above its tuning and a bend, in 8192nds of a twelfth, that
\* shifts the note up by a whole number of semitones.
note_to_frequency(sub, note, bend) ==
    Max(1, SemitoneFrequencies[(note - sub.tuning) + ((sub.bend_sensitivity * bend) \div 8192) + 1])

\* channel::spu_max_frequency.
spu_max_frequency == 4 * 44100

\* channel::limit_frequency.
limit_frequency(frequency, apply_psx_limit) ==
    IF frequency = 0
    THEN 1
    ELSE IF frequency > spu_max_frequency /\ apply_psx_limit
    THEN spu_max_frequency
    ELSE frequency

\* The left and right volumes of channel::master_volume, in 128ths of the
\* volume's unit.
master_volume(volume, pan) == <<volume * (128 - pan), volume * (pan + 1)>>

\* channel::channel: the channel starts playing at once.  The resampler that
\* reads the patch is there (m_resampler), the envelope is neither released
\* nor stopped, the user data (note) is 0.
channel(sub, frequency, volume, pan, apply_psx_limit) ==
    [note |-> 0, born |-> 0, event |-> 0,
     m_resampler |-> TRUE, m_limit_frequency |-> apply_psx_limit,
     rate_in |-> limit_frequency(frequency, apply_psx_limit),
     m_pan |-> pan, m_volume |-> master_volume(volume, pan),
     samples_left |-> sub.samples, release_ticks |-> sub.release,
     released |-> FALSE, releases |-> 0, env_wait |-> 0, env_stopped |-> FALSE,
     sampled |-> FALSE, first_released |-> FALSE]

\* track_player::adjust_stereo_effect for a stereo width of 0, the width of
\* every player here.
adjust_stereo_effect(pan) == pan

\* clamp of utility.h.
clamp(value, low, high) == IF value < low THEN low ELSE IF value > high THEN high ELSE value

\* track_player::start_note: the new channel, its note kept as user data.
\* The combined volume is held in 127ths of 127ths of 127ths.
start_note(note, volume, sub, track_volume, pan_offset, unit_pitch_bend, call, event) ==
    [channel(sub, note_to_frequency(sub, note, unit_pitch_bend),
             track_volume * sub.volume * volume,
             adjust_stereo_effect(clamp(sub.pan + pan_offset, 0, 127)), TRUE)
        EXCEPT !.note = note, !.born = call, !.event = event]

\* release() that leaves a released channel alone.
channel_release_once(c) ==
    IF c.released
    THEN c
    ELSE [c EXCEPT !.released = TRUE, !.releases = 1, !.env_wait = c.release_ticks]

\* channel::release, envelope::release: an envelope that has not stopped
\* begins its release cycle, once more when it was released before.  The
\* calls are counted.
channel_release(c) ==
    [c EXCEPT !.released = TRUE,
              !.releases = @ + 1,
              !.env_wait = IF c.env_stopped THEN @ ELSE c.release_ticks]

\* channel::frequency: the new rate reaches the resampler if there is one.
channel_frequency(c, new_frequency) ==
    IF c.m_resampler
    THEN [c EXCEPT !.rate_in = limit_frequency(new_frequency, c.m_limit_frequency)]
    ELSE c

\* channel::master_volume.
channel_master_volume(c, volume) == [c EXCEPT !.m_volume = master_volume(volume, c.m_pan)]

\* The pitch bend loop: the frequency of every channel is set again.
bend_channels(channels, sub, bend) ==
    [i \in DOMAIN channels |->
        channel_frequency(channels[i], note_to_frequency(sub, channels[i].note, bend))]

\* The note off loop releasing only channels that were pulled before.
release_sampled(channels, note) ==
    [i \in DOMAIN channels |->
        IF channels[i].note = note /\ channels[i].sampled
        THEN channel_release(channels[i])
        ELSE channels[i]]

\* The note off loop: every channel playing the note is released.
release_matching(channels, note) ==
    [i \in DOMAIN channels |->
        IF channels[i].note = note THEN channel_release(channels[i]) ELSE channels[i]]

\* The repeat test that takes an endless play count for a finished one.
wants_repeat_finite(play_count) == play_count > 1

\* Whether the caller wants a repeat: unless the play count has reached 1.
wants_repeat(play_count) == play_count # 1

\* The channels after an event whose volume event sets the master volume of
\* every channel again.
event_channels_revolumed(ev, sub, call, p) ==
    CASE ev.code = "note_on" ->
           Append(p.channels,
                  start_note(ev.data_0, ev.data_1, sub, p.track_volume, p.pan_offset,
                             p.unit_pitch_bend, call, Len(p.applied) + 1))
      [] ev.code = "note_off" -> release_matching(p.channels, ev.data_0)
      [] ev.code = "pitch_bend" -> bend_channels(p.channels, sub, ev.data_0)
      [] ev.code = "volume" ->
           [i \in DOMAIN p.channels |->
               channel_master_volume(p.channels[i], ev.data_0 * sub.volume * 100)]
      [] OTHER -> p.channels

\* The channels after the switch of track_player::next has handled an event:
\* a note on adds a channel, a note off releases and a pitch bend retunes the
\* channels there are, every other event leaves them alone.
event_channels(ev, sub, call, p) ==
    CASE ev.code = "note_on" ->
           Append(p.channels,
                  start_note(ev.data_0, ev.data_1, sub, p.track_volume, p.pan_offset,
                             p.unit_pitch_bend, call, Len(p.applied) + 1))
      [] ev.code = "note_off" -> release_matching(p.channels, ev.data_0)
      [] ev.code = "pitch_bend" -> bend_channels(p.channels, sub, ev.data_0)
      [] OTHER -> p.channels

\* The switch of track_player::next for one extracted event, on the player p
\* (stream position, next event time, play count, channels, events applied,
\* error).
apply_event(ev, time, repeat, repeat_start, size, sub, call, p) ==
    LET seeks == ev.code = "jump_to_marker" /\ wants_repeat(p.play_count) /\ repeat
        invalid == \/ ev.code = "note_on" /\ (ev.data_0 > 127 \/ ev.data_1 > 127)
                   \/ ev.code \in {"note_off", "volume", "pan_offset"} /\ ev.data_0 > 127
                   \/ ev.code = "pitch_bend" /\ (ev.data_0 < -8192 \/ ev.data_0 > 8192)
                   \/ seeks /\ repeat_start > size
        play_count == IF ev.code = "jump_to_marker" /\ wants_repeat(p.play_count)
                          /\ p.play_count > 0
                       THEN p.play_count - 1
                       ELSE p.play_count
        track_volume == IF ev.code = "volume" THEN ev.data_0 ELSE p.track_volume
        pan_offset == IF ev.code = "pan_offset" THEN ev.data_0 - 64 ELSE p.pan_offset
        unit_pitch_bend == IF ev.code = "pitch_bend" THEN ev.data_0 ELSE p.unit_pitch_bend
    IN IF invalid
       THEN [p EXCEPT !.err = TRUE, !.pos = ev.pos, !.next_event_time = ev.next_event_time]
       ELSE [pos |-> IF seeks THEN repeat_start ELSE ev.pos,
             next_event_time |-> ev.next_event_time,
             play_count |-> play_count,
             channels |-> event_channels(ev, sub, call, p),
             track_volume |-> track_volume,
             pan_offset |-> pan_offset,
             unit_pitch_bend |-> unit_pitch_bend,
             applied |-> Append(p.applied, [code |-> ev.code, at |-> ev.at, data_0 |-> ev.data_0,
                                            time |-> time, call |-> call, seek |-> seeks,
                                            voices |-> event_channels(ev, sub, call, p) #
                                                           p.channels,
                                            fields |-> <<play_count, track_volume, pan_offset,
                                                         unit_pitch_bend>>]),
             err |-> FALSE,
             hung |-> FALSE]

\* The event loop of track_player::next: every event that is due is
\* extracted and applied.  A loop that is still extracting after fuel events
\* never ends.
RECURSIVE apply_events(_, _, _, _, _, _, _, _)
apply_events(data, tick_position, repeat, repeat_start, sub, call, p, fuel) ==
    IF p.err \/ ~have_event(data, p.pos, p.next_event_time, tick_position)
    THEN p
    ELSE IF fuel = 0
    THEN [p EXCEPT !.hung = TRUE]
    ELSE LET ev == get_event(data, p.pos, p.next_event_time)
         IN IF ~ev.ok
            THEN [p EXCEPT !.err = TRUE, !.pos = ev.pos]
            ELSE apply_events(data, tick_position, repeat, repeat_start, sub, call,
                              apply_event(ev, p.next_event_time, repeat, repeat_start,
                                          Len(data), sub, call, p),
                              fuel - 1)

\* channel::next keeping the resampler whatever the two sources report.
channel_pulled_on(c) ==
    LET waited == IF c.released /\ ~c.env_stopped THEN c.env_wait - 1 ELSE c.env_wait
    IN [c EXCEPT !.samples_left = IF @ > 0 THEN @ - 1 ELSE @,
                 !.env_wait = waited,
                 !.env_stopped = @ \/ (c.released /\ waited = 0),
                 !.sampled = TRUE,
                 !.first_released = IF c.sampled THEN @ ELSE c.released]

\* channel::next of a channel that has its resampler: the resampler and the
\* envelope are pulled once each, and the resampler is dropped when either
\* reported that it has stopped.  The resampler is live while the patch has
\* samples left, the envelope until the next() that follows its last release
\* tick.
channel_pulled(c) ==
    LET resampler_live == c.samples_left # 0
        envelope_live == ~c.env_stopped
        waited == IF c.released /\ ~c.env_stopped THEN c.env_wait - 1 ELSE c.env_wait
    IN [c EXCEPT !.m_resampler = resampler_live /\ envelope_live,
                 !.samples_left = IF @ > 0 THEN @ - 1 ELSE @,
                 !.env_wait = waited,
                 !.env_stopped = @ \/ (c.released /\ waited = 0),
                 !.sampled = TRUE,
                 !.first_released = IF c.sampled THEN @ ELSE c.released]

\* The result of channel::next, and channel::is_running: whether the
\* resampler is there.
channel_next(c) == c.m_resampler

\* The last loop pulling every channel and erasing none.
pull_channels_keep(channels) ==
    [i \in DOMAIN channels |->
        IF channel_next(channels[i]) THEN channel_pulled(channels[i]) ELSE channels[i]]

\* The last loop of track_player::next: every channel is pulled and the
\* finished ones are erased.
pull_channels(channels) ==
    LET running == SelectSeq(channels, channel_next)
    IN [i \in DOMAIN running |-> channel_pulled(running[i])]

\* track_player::failed_to_repeat.
track_failed_to_repeat(play_count) == play_count > 1

\* track_player::is_running.
track_is_running(channels, repeat, play_count, data, pos) ==
    \/ Len(channels) > 0
    \/ repeat /\ (play_count = 0 \/ play_count > 1)
    \/ stream_is_running(data, pos)

\* track_player::next.
track_next ==
    /\ ~tp_err
    /\ ~tp_hung
    /\ tp_calls < MaxTrackCalls
    /\ LET p == apply_events(trk_data, m_tick_position, trk_repeat, trk_repeat_start,
                             trk_instrument, tp_calls,
                             [pos |-> m_position, next_event_time |-> m_next_event_time,
                              play_count |-> tp_play_count, channels |-> m_channels,
                              track_volume |-> m_track_volume, pan_offset |-> m_pan_offset,
                              unit_pitch_bend |-> m_unit_pitch_bend,
                              applied |-> tp_applied, err |-> FALSE, hung |-> FALSE],
                             MaxEventsPerCall)
           live == \/ Len(m_channels) > 0
                   \/ stream_is_running(trk_data, m_position)
                   \/ Len(p.applied) > Len(tp_applied)
           ticks == stream_is_running(trk_data, p.pos)
           ticked == tick(m_tick_fraction, m_tick_position, m_track_ticks_per_minute,
                          m_caller_ticks_per_minute)
       IN /\ m_position' = p.pos
          /\ m_next_event_time' = p.next_event_time
          /\ tp_play_count' = p.play_count
          /\ m_track_volume' = p.track_volume
          /\ m_pan_offset' = p.pan_offset
          /\ m_unit_pitch_bend' = p.unit_pitch_bend
          /\ tp_applied' = p.applied
          /\ tp_err' = p.err
          /\ tp_hung' = p.hung
          /\ IF p.err \/ p.hung
             THEN /\ m_channels' = p.channels
                  /\ UNCHANGED <<m_tick_fraction, m_tick_position, tp_ticks, tp_ret, tp_calls>>
             ELSE /\ m_tick_fraction' = IF ticks THEN ticked.fraction ELSE m_tick_fraction
                  /\ m_tick_position' = IF ticks THEN ticked.position ELSE m_tick_position
                  /\ tp_ticks' = IF ticks THEN tp_ticks + 1 ELSE tp_ticks
                  /\ m_channels' = pull_channels(p.channels)
                  /\ tp_ret' = live
                  /\ tp_calls' = tp_calls + 1
    /\ UNCHANGED <<trk_data, trk_beats_per_minute, trk_ticks_per_beat, trk_repeat,
                   trk_repeat_start, trk_instrument, m_caller_ticks_per_minute,
                   m_track_ticks_per_minute, tp_plays, ms_op>>
    /\ UNCHANGED <<sil_vars, spl_vars, ad_vars, env_vars,
                   nm_vars, wav_vars, node_vars, lcd_vars, ed_vars, rs_vars, rv_vars, chn_vars>>

\* The time deltas of the tracks: 0 in one byte and 1 in two.
DeltaBytes == {<<0>>, <<128, 1>>}

\* The events of the tracks: note on and note off of note 60, and a jump to
\* marker 0.
EventBytes == {<<17, 60, 100>>, <<18, 60>>, <<32, 0, 0>>}

\* Music data of exactly n events, each after its time delta.
RECURSIVE EventData(_)
EventData(n) ==
    IF n = 0
    THEN {<<>>}
    ELSE {s \o d \o e : s \in EventData(n - 1), d \in DeltaBytes, e \in EventBytes}

\* The music data of the tracks: up to MaxEvents events, then the end of
\* stream event.
TrackData == {s \o d \o <<34>> : s \in UNION {EventData(n) : n \in 0..MaxEvents}, d \in DeltaBytes}

\* The offsets of the event codes in music data whose first delta is at pos.
RECURSIVE EventOffsets(_, _)
EventOffsets(data, pos) ==
    LET delta == get_delta(data, pos)
        code == event_code(data[delta.pos + 1])
    IN IF ~delta.ok \/ delta.pos >= Len(data)
       THEN {}
       ELSE IF code = "eos"
       THEN {delta.pos}
       ELSE {delta.pos} \cup EventOffsets(data, delta.pos + 1 + event_size(code))

\* The tempos of the tracks as beats per minute and ticks per beat: 40 and
\* 90 track ticks a minute.
Tempos == {<<20, 2>>, <<45, 2>>}

\* The sample rates of the players: 60 caller ticks a minute.
SampleRates == {1}

\* music_stream::music_stream: the first time delta is read.
music_stream_init(data) == get_delta(data, 0)

\* A player straight after construction, the stream's first delta read.  The
\* track is one of TrackData or has no music data at all; a constructor that
\* threw leaves no player.
TrackInit ==
    /\ trk_data \in TrackData \cup {<<>>}
    /\ \E tempo \in Tempos :
           /\ trk_beats_per_minute = tempo[1]
           /\ trk_ticks_per_beat = tempo[2]
    /\ trk_repeat \in BOOLEAN
    /\ trk_repeat_start \in IF trk_repeat /\ trk_data # <<>>
                             THEN EventOffsets(trk_data, 0)
                             ELSE {0}
    /\ trk_instrument = PlainInstrument
    /\ m_track_volume = 127
    /\ m_pan_offset = 0
    /\ m_unit_pitch_bend = 0
    /\ m_position = music_stream_init(trk_data).pos
    /\ m_next_event_time = music_stream_init(trk_data).delta
    /\ m_caller_ticks_per_minute \in {rate * 60 : rate \in SampleRates}
    /\ m_track_ticks_per_minute = trk_ticks_per_beat * trk_beats_per_minute
    /\ m_tick_position = 0
    /\ m_tick_fraction = 0
    /\ tp_play_count \in 0..MaxPlayCount
    /\ tp_plays = tp_play_count
    /\ m_channels = <<>>
    /\ tp_calls = 0
    /\ tp_ticks = 0
    /\ tp_applied = <<>>
    /\ tp_ret = TRUE
    /\ tp_err = ~music_stream_init(trk_data).ok
    /\ tp_hung = FALSE
    /\ ms_op = <<"none", 0>>
    /\ SilencerIdle
    /\ SplitterIdle
    /\ AdpcmIdle
    /\ EnvelopeIdle
    /\ NormalizerIdle
    /\ WavIdle
    /\ NodeIdle
    /\ LcdIdle
    /\ EditIdle
    /\ ResamplerIdle
    /\ ReverbIdle
    /\ ChannelIdle

TrackNext == track_next

TrackSpec == TrackInit /\ [][TrackNext]_vars

\* The sub-instruments of the tracks whose voices are followed: the plain
\* one, one that is quieter, far to the right and takes two ticks to release,
\* and one whose patch does not repeat and gives two samples.
Instruments ==
    {PlainInstrument,
     [PlainInstrument EXCEPT !.volume = 100, !.pan = 100, !.release = 2],
     [PlainInstrument EXCEPT !.samples = 2]}

\* Most events of a track of control events, and of a track of notes.
MaxControls == 2

MaxNotes == MaxControls + 3

\* Note events: note on of notes 60 and 61 and note off of note 60.
NoteEvents == {<<17, 60, 100>>, <<17, 61, 100>>, <<18, 60>>}

\* Control events next to a note on: volume 50, pan 127, a pitch bend of
\* 0x2000, set instrument, set marker and the two unknown events.
ControlEvents ==
    {<<17, 60, 100>>, <<12, 50>>, <<13, 127>>, <<9, 0, 32>>, <<7, 0, 0>>, <<35>>, <<11, 0>>,
     <<14, 0>>}

\* Music data of exactly n of the events, each after the same time delta.
RECURSIVE ScoreData(_, _, _)
ScoreData(n, events, d) ==
    IF n = 0
    THEN {<<>>}
    ELSE {s \o d \o e : s \in ScoreData(n - 1, events, d), e \in events}

\* A player of a track that does not repeat, played once with one of the
\* sub-instruments at 90 track ticks a minute, straight after construction.
VoiceInit ==
    /\ \E d \in DeltaBytes :
           trk_data \in {s \o d \o <<34>> :
                            s \in UNION ({ScoreData(n, NoteEvents, d) : n \in 0..MaxNotes}
                                         \cup {ScoreData(n, ControlEvents, d) :
                                                  n \in 0..MaxControls})}
    /\ trk_beats_per_minute = 45
    /\ trk_ticks_per_beat = 2
    /\ trk_repeat = FALSE
    /\ trk_repeat_start = 0
    /\ trk_instrument \in Instruments
    /\ m_track_volume = 127
    /\ m_pan_offset = 0
    /\ m_unit_pitch_bend = 0
    /\ m_position = music_stream_init(trk_data).pos
    /\ m_next_event_time = music_stream_init(trk_data).delta
    /\ m_caller_ticks_per_minute \in {rate * 60 : rate \in SampleRates}
    /\ m_track_ticks_per_minute = trk_ticks_per_beat * trk_beats_per_minute
    /\ m_tick_position = 0
    /\ m_tick_fraction = 0
    /\ tp_play_count = 1
    /\ tp_plays = 1
    /\ m_channels = <<>>
    /\ tp_calls = 0
    /\ tp_ticks = 0
    /\ tp_applied = <<>>
    /\ tp_ret = TRUE
    /\ tp_err = FALSE
    /\ tp_hung = FALSE
    /\ ms_op = <<"none", 0>>
    /\ SilencerIdle
    /\ SplitterIdle
    /\ AdpcmIdle
    /\ EnvelopeIdle
    /\ NormalizerIdle
    /\ WavIdle
    /\ NodeIdle
    /\ LcdIdle
    /\ EditIdle
    /\ ResamplerIdle
    /\ ReverbIdle
    /\ ChannelIdle

\* The next() calls made on such a player: enough for its last event and for
\* the voices released by then to end.
MaxVoiceCalls == MaxNotes + 4

\* The player is called until next() returns false.
VoiceNext == tp_ret /\ tp_calls < MaxVoiceCalls /\ track_next

VoiceSpec == VoiceInit /\ [][VoiceNext]_vars

\* The sub-instruments of the tracks played to their end: both take two
\* ticks to release, the patch of one repeats and the patch of the other
\* gives two samples.
PlayInstruments ==
    {[PlainInstrument EXCEPT !.release = 2],
     [PlainInstrument EXCEPT !.release = 2, !.samples = 2]}

\* The tempos of the tracks played to their end: 90 track ticks a minute, and
\* none, the beats per minute of the track header being 0.
PlayTempos == {<<45, 2>>, <<0, 2>>}

\* Most events of a track played to its end: a note on, a note off and a
\* jump fit in.
MaxPlayEvents == MaxEvents + 1

\* A player asked for a finite number of plays of a track of up to
\* MaxPlayEvents of the events of EventBytes, each after the same time delta,
\* straight after construction.
PlayInit ==
    /\ \E d \in DeltaBytes :
           trk_data \in {s \o d \o <<34>> :
                            s \in UNION {ScoreData(n, EventBytes, d) : n \in 0..MaxPlayEvents}}
    /\ \E tempo \in PlayTempos :
           /\ trk_beats_per_minute = tempo[1]
           /\ trk_ticks_per_beat = tempo[2]
    /\ trk_repeat \in BOOLEAN
    /\ trk_repeat_start \in IF trk_repeat THEN EventOffsets(trk_data, 0) ELSE {0}
    /\ trk_instrument \in PlayInstruments
    /\ m_track_volume = 127
    /\ m_pan_offset = 0
    /\ m_unit_pitch_bend = 0
    /\ m_position = music_stream_init(trk_data).pos
    /\ m_next_event_time = music_stream_init(trk_data).delta
    /\ m_caller_ticks_per_minute \in {rate * 60 : rate \in SampleRates}
    /\ m_track_ticks_per_minute = trk_ticks_per_beat * trk_beats_per_minute
    /\ m_tick_position = 0
    /\ m_tick_fraction = 0
    /\ tp_play_count \in 1..MaxPlayCount
    /\ tp_plays = tp_play_count
    /\ m_channels = <<>>
    /\ tp_calls = 0
    /\ tp_ticks = 0
    /\ tp_applied = <<>>
    /\ tp_ret = TRUE
    /\ tp_err = FALSE
    /\ tp_hung = FALSE
    /\ ms_op = <<"none", 0>>
    /\ SilencerIdle
    /\ SplitterIdle
    /\ AdpcmIdle
    /\ EnvelopeIdle
    /\ NormalizerIdle
    /\ WavIdle
    /\ NodeIdle
    /\ LcdIdle
    /\ EditIdle
    /\ ResamplerIdle
    /\ ReverbIdle
    /\ ChannelIdle

PlayNext == track_next

PlaySpec == PlayInit /\ [][PlayNext]_vars

\* ------------------------------------------------ music stream, called directly

\* The longest byte string given to the stream.
MaxBytes == 3

\* seek(): a position beyond the data throws and leaves m_position alone.
seek_then_check(position, pos, size) ==
    [ok |-> pos <= size, pos |-> pos]

seek(position, pos, size) ==
    IF pos > size
    THEN [ok |-> FALSE, pos |-> position]
    ELSE [ok |-> TRUE, pos |-> pos]

\* get_event() called by the stream's user: nothing is read unless an event
\* is due; a read that throws leaves the stream where the exception left it.
stream_get_event ==
    /\ ~TrackIdle
    /\ IF have_event(trk_data, m_position, m_next_event_time, m_tick_position)
       THEN LET ev == get_event(trk_data, m_position, m_next_event_time)
            IN /\ m_position' = ev.pos
               /\ m_next_event_time' = ev.next_event_time
               /\ tp_ret' = ev.ok
               /\ tp_err' = ~ev.ok
       ELSE /\ tp_ret' = FALSE
            /\ tp_err' = FALSE
            /\ UNCHANGED <<m_position, m_next_event_time>>
    /\ ms_op' = <<"get_event", 0>>
    /\ UNCHANGED <<trk_data, trk_beats_per_minute, trk_ticks_per_beat, trk_repeat,
                   trk_repeat_start, trk_instrument, m_track_volume, m_pan_offset,
                   m_unit_pitch_bend, m_caller_ticks_per_minute, m_track_ticks_per_minute,
                   m_tick_position, m_tick_fraction, tp_play_count, m_channels,
                   tp_plays, tp_calls, tp_ticks, tp_applied, tp_hung>>
    /\ UNCHANGED <<sil_vars, spl_vars, ad_vars, env_vars,
                   nm_vars, wav_vars, node_vars, lcd_vars, ed_vars, rs_vars, rv_vars, chn_vars>>

\* seek() with any argument up to one past the data's size.
stream_seek ==
    /\ ~TrackIdle
    /\ \E pos \in 0..(Len(trk_data) + 1) :
           LET sought == seek(m_position, pos, Len(trk_data))
           IN /\ m_position' = sought.pos
              /\ tp_err' = ~sought.ok
              /\ ms_op' = <<"seek", pos>>
    /\ UNCHANGED <<trk_data, trk_beats_per_minute, trk_ticks_per_beat, trk_repeat,
                   trk_repeat_start, trk_instrument, m_track_volume, m_pan_offset,
                   m_unit_pitch_bend, m_caller_ticks_per_minute, m_track_ticks_per_minute,
                   m_tick_position, m_tick_fraction, m_next_event_time, tp_play_count,
                   m_channels, tp_plays, tp_calls, tp_ticks, tp_applied, tp_ret, tp_hung>>
    /\ UNCHANGED <<sil_vars, spl_vars, ad_vars, env_vars,
                   nm_vars, wav_vars, node_vars, lcd_vars, ed_vars, rs_vars, rv_vars, chn_vars>>

\* Bytes the track data is made of: a zero delta or parameter, an event with
\* two parameter bytes, one with a parameter word, the end of the stream, an
\* event without parameters, and a byte that is no event code and, as a delta,
\* announces a further byte.
StreamBytes == {0, 17, 32, 34, 35, 128}

\* A stream whose constructor read its first delta; the data may be malformed
\* in every other way.
StreamInit ==
    /\ trk_data \in SeqsUpTo(StreamBytes, MaxBytes)
    /\ music_stream_init(trk_data).ok
    /\ trk_beats_per_minute = 30
    /\ trk_ticks_per_beat = 2
    /\ trk_repeat = FALSE
    /\ trk_repeat_start = 0
    /\ trk_instrument = PlainInstrument
    /\ m_track_volume = 127
    /\ m_pan_offset = 0
    /\ m_unit_pitch_bend = 0
    /\ m_position = music_stream_init(trk_data).pos
    /\ m_next_event_time = music_stream_init(trk_data).delta
    /\ m_caller_ticks_per_minute = 60
    /\ m_track_ticks_per_minute = trk_ticks_per_beat * trk_beats_per_minute
    /\ m_tick_position = 0
    /\ m_tick_fraction = 0
    /\ tp_play_count = 1
    /\ tp_plays = 1
    /\ m_channels = <<>>
    /\ tp_calls = 0
    /\ tp_ticks = 0
    /\ tp_applied = <<>>
    /\ tp_ret = TRUE
    /\ tp_err = FALSE
    /\ tp_hung = FALSE
    /\ ms_op = <<"none", 0>>
    /\ SilencerIdle
    /\ SplitterIdle
    /\ AdpcmIdle
    /\ EnvelopeIdle
    /\ NormalizerIdle
    /\ WavIdle
    /\ NodeIdle
    /\ LcdIdle
    /\ EditIdle
    /\ ResamplerIdle
    /\ ReverbIdle
    /\ ChannelIdle

StreamNext == stream_get_event \/ stream_seek

StreamSpec == StreamInit /\ [][StreamNext]_vars

\* ------------------------------------------------------------- normalizer

\* The longest source the normalizer is given.
MaxNormLen == 2

\* One more next() call than it takes to hear the last false.
MaxNormCalls == MaxNormLen + 2

\* Fractions <<numerator, denominator>> with a positive denominator stand
\* for the mono_t levels.
rat_less(a, b) == a[1] * b[2] < b[1] * a[2]

rat_max(a, b) == IF rat_less(a, b) THEN b ELSE a

rat_inverse(a) == <<a[2], a[1]>>

magnitude(sample) == <<IF sample < 0 THEN -sample ELSE sample, 1>>

\* The loop's running maximum.
level_of_last(max_level, sample) ==
    magnitude(sample)

level_after(max_level, sample) ==
    rat_max(max_level, magnitude(sample))

\* The first pass's loop from source position pos on: the source is pulled,
\* each sample is written to the spill file, counted and measured, until the
\* source returns false, the source throws (at its next() call number
\* throws) or write_sample() throws (at the sample numbered write_fails).
RECURSIVE buffer_source(_, _, _, _, _)
buffer_source(src, pos, throws, write_fails, pass) ==
    LET pulled == [pass EXCEPT !.pulls = @ + 1]
    IN IF throws = pos + 1
       THEN [pulled EXCEPT !.err = TRUE]
       ELSE IF pos >= Len(src)
       THEN pulled
       ELSE IF write_fails = pos + 1
       THEN [pulled EXCEPT !.err = TRUE, !.pos = pos + 1]
       ELSE buffer_source(src, pos + 1, throws, write_fails,
                [pulled EXCEPT !.file = Append(@, src[pos + 1]),
                               !.samples = @ + 1,
                               !.pos = pos + 1,
                               !.max_level = level_after(@, src[pos + 1])])

\* What the file operations of one next() call may do: nothing wrong, or one
\* of them fails (the write of sample number fail[2]).
FileFailures(src) ==
    {<<"none", 0>>, <<"open_write", 0>>, <<"close", 0>>, <<"open_read", 0>>,
     <<"read", 0>>} \cup {<<"write", i>> : i \in 1..Len(src)}

\* The second half of next(): hand out the next buffered sample, scaled.
normalizer_read(fail, pulls, temp_file, normalization, samples) ==
    /\ m_temp_file' = temp_file
    /\ m_normalization' = normalization
    /\ m_samples' = samples
    /\ nm_pulls' = Append(nm_pulls, pulls)
    /\ IF m_current_sample >= samples
       THEN /\ nm_ret' = FALSE
            /\ nm_err' = FALSE
            /\ UNCHANGED <<m_current_sample, nm_out>>
       ELSE /\ m_current_sample' = m_current_sample + 1
            /\ IF fail[1] = "read"
               THEN /\ nm_err' = TRUE
                    /\ UNCHANGED <<nm_out, nm_ret>>
               ELSE /\ nm_err' = FALSE
                    /\ nm_ret' = TRUE
                    /\ nm_out' = Append(nm_out,
                           <<nm_file'[m_current_sample + 1] * normalization[1],
                             normalization[2]>>)

\* next().  An exception ends the call where it was thrown.
normalizer_next ==
    /\ ~NormalizerIdle
    /\ ~nm_destroyed
    /\ ~nm_err
    /\ Len(nm_pulls) < MaxNormCalls
    /\ \E fail \in FileFailures(nm_src) :
           IF m_temp_file = "null"
           THEN IF fail[1] = "open_write"
                THEN /\ nm_err' = TRUE
                     /\ nm_pulls' = Append(nm_pulls, 0)
                     /\ UNCHANGED <<nm_src_pos, m_temp_file, m_temp_file_created,
                                    m_normalization, m_samples, m_current_sample,
                                    nm_file_exists, nm_file, nm_out, nm_ret>>
                ELSE LET pass == buffer_source(nm_src, nm_src_pos, nm_src_throws,
                                     IF fail[1] = "write" THEN fail[2] ELSE 0,
                                     [file |-> <<>>, samples |-> m_samples,
                                      pos |-> nm_src_pos, pulls |-> 0, err |-> FALSE,
                                      max_level |-> rat_inverse(m_normalization)])
                     IN /\ m_temp_file_created' = TRUE
                        /\ nm_file_exists' = TRUE
                        /\ nm_file' = pass.file
                        /\ nm_src_pos' = pass.pos
                        /\ IF pass.err \/ fail[1] = "close"
                           THEN /\ m_temp_file' = IF pass.err THEN "write" ELSE "closed"
                                /\ m_samples' = pass.samples
                                /\ nm_err' = TRUE
                                /\ nm_pulls' = Append(nm_pulls, pass.pulls)
                                /\ UNCHANGED <<m_normalization, m_current_sample,
                                               nm_out, nm_ret>>
                           ELSE IF fail[1] = "open_read"
                           THEN /\ m_temp_file' = "null"
                                /\ m_samples' = pass.samples
                                /\ m_normalization' = rat_inverse(pass.max_level)
                                /\ nm_err' = TRUE
                                /\ nm_pulls' = Append(nm_pulls, pass.pulls)
                                /\ UNCHANGED <<m_current_sample, nm_out, nm_ret>>
                           ELSE normalizer_read(fail, pass.pulls, "read",
                                    rat_inverse(pass.max_level), pass.samples)
           ELSE /\ UNCHANGED <<nm_src_pos, m_temp_file_created, nm_file_exists, nm_file>>
                /\ normalizer_read(fail, 0, m_temp_file, m_normalization, m_samples)
    /\ UNCHANGED <<nm_src, nm_src_throws, nm_destroyed>>
    /\ UNCHANGED <<sil_vars, spl_vars, ad_vars, env_vars, trk_vars,
                   wav_vars, node_vars, lcd_vars, ed_vars, rs_vars, rv_vars, chn_vars>>

\* ~normalizer(): close() on a file still open for writing flushes it and may
\* fail; the exception leaves the destructor before remove() is reached.
normalizer_destroy ==
    /\ ~NormalizerIdle
    /\ ~nm_destroyed
    /\ \E close_fails \in BOOLEAN :
           IF m_temp_file = "write" /\ close_fails
           THEN /\ m_temp_file' = "closed"
                /\ UNCHANGED nm_file_exists
           ELSE /\ m_temp_file' = IF m_temp_file = "null" THEN "null" ELSE "closed"
                /\ nm_file_exists' = IF m_temp_file_created THEN FALSE ELSE nm_file_exists
    /\ nm_destroyed' = TRUE
    /\ UNCHANGED <<nm_src, nm_src_throws, nm_src_pos, m_temp_file_created,
                   m_normalization, m_samples, m_current_sample, nm_file,
                   nm_pulls, nm_out, nm_ret, nm_err>>
    /\ UNCHANGED <<sil_vars, spl_vars, ad_vars, env_vars, trk_vars,
                   wav_vars, node_vars, lcd_vars, ed_vars, rs_vars, rv_vars, chn_vars>>

\* Sample values in units of full scale, and the amplitudes of the
\* normalization limit the constructor is given.
NormSamples == {-3, 0, 1, 2}

NormLimits == {1, 2}

\* A normalizer straight after construction, on a source that yields some
\* samples and either ends or throws.
NormalizerInit ==
    /\ nm_src \in SeqsUpTo(NormSamples, MaxNormLen)
    /\ nm_src_throws \in 0..(Len(nm_src) + 1)
    /\ nm_src_pos = 0
    /\ m_temp_file = "null"
    /\ m_temp_file_created = FALSE
    /\ \E limit \in NormLimits : m_normalization = <<limit, 1>>
    /\ m_samples = 0
    /\ m_current_sample = 0
    /\ nm_file_exists = FALSE
    /\ nm_file = <<>>
    /\ nm_pulls = <<>>
    /\ nm_out = <<>>
    /\ nm_ret = TRUE
    /\ nm_err = FALSE
    /\ nm_destroyed = FALSE
    /\ SilencerIdle
    /\ SplitterIdle
    /\ AdpcmIdle
    /\ EnvelopeIdle
    /\ TrackIdle
    /\ WavIdle
    /\ NodeIdle
    /\ LcdIdle
    /\ EditIdle
    /\ ResamplerIdle
    /\ ReverbIdle
    /\ ChannelIdle

NormalizerNext == normalizer_next \/ normalizer_destroy

NormalizerSpec == NormalizerInit /\ [][NormalizerNext]_vars

\* ------------------------------------------------------------- WAV writer

\* The longest root output written.
MaxWavLen == 3

\* The batch size, standing for the 4096 samples of the code.
buffer_samples == 2

\* The most samples a mono file holds: (0xffffffff - 44) / 2.
m_max_samples == 2147483625

\* int32_t(x) for x = n / d with d > 0: the fraction truncated towards zero.
to_int32(n, d) == IF n >= 0 THEN n \div d ELSE -((-n) \div d)

\* sample_to_int() of the sample q / 4: s * SHRT_MAX + 0.5 is
\* (2 * q * SHRT_MAX + 4) / 8.
sample_to_int(q) == clamp16(to_int32(2 * q * SHRT_MAX + 4, 8))

\* The outer loop's condition.
loop_while_full(buffer) == Len(buffer) >= buffer_samples

loop_again(buffer) == buffer # <<>>

\* The inner loop: pull the root while the batch has room and the root
\* returns true.
RECURSIVE fill_buffer(_, _)
fill_buffer(root, batch) ==
    IF Len(batch.buffer) >= buffer_samples
    THEN batch
    ELSE LET live == batch.pos < Len(root)
             pulled == [batch EXCEPT !.pulls = Append(@,
                           [running |-> live, ret |-> live,
                            batch_start |-> batch.buffer = <<>>])]
         IN IF ~live
            THEN pulled
            ELSE IF batch.samples + 1 > m_max_samples
            THEN [pulled EXCEPT !.pos = @ + 1, !.samples = @ + 1, !.err = TRUE]
            ELSE fill_buffer(root,
                     [pulled EXCEPT !.pos = @ + 1,
                                    !.samples = @ + 1,
                                    !.buffer = Append(@, sample_to_int(root[batch.pos + 1]))])

\* write() up to its loop: the file is opened and the header written, or
\* open() throws.
wav_open ==
    /\ wav_state = "new"
    /\ \E fails \in BOOLEAN :
           wav_state' = IF fails THEN "aborted" ELSE "open"
    /\ UNCHANGED <<wav_root, wav_root_pos, wav_m_samples, wav_data, wav_pulls>>
    /\ UNCHANGED <<sil_vars, spl_vars, ad_vars, env_vars, trk_vars,
                   nm_vars, node_vars, lcd_vars, ed_vars, rs_vars, rv_vars, chn_vars>>

\* One pass of write()'s do loop: a batch is collected and written; an empty
\* batch ends the loop and the file is closed.  A throw is caught by
\* write_wav_file(), which removes the file.
wav_batch ==
    /\ wav_state = "open"
    /\ \E fails \in BOOLEAN :
           LET batch == fill_buffer(wav_root,
                            [buffer |-> <<>>, pos |-> wav_root_pos,
                             samples |-> wav_m_samples, pulls |-> wav_pulls,
                             err |-> FALSE])
           IN /\ wav_root_pos' = batch.pos
              /\ wav_m_samples' = batch.samples
              /\ wav_pulls' = batch.pulls
              /\ IF batch.err \/ fails
                 THEN /\ wav_state' = "aborted"
                      /\ wav_data' = <<>>
                 ELSE /\ wav_data' = wav_data \o batch.buffer
                      /\ wav_state' = IF loop_again(batch.buffer) THEN "open" ELSE "closed"
    /\ UNCHANGED wav_root
    /\ UNCHANGED <<sil_vars, spl_vars, ad_vars, env_vars, trk_vars,
                   nm_vars, node_vars, lcd_vars, ed_vars, rs_vars, rv_vars, chn_vars>>

\* Root samples in quarters of full scale: beyond full scale both ways, a
\* small negative one, silence and one half.
WavSamples == {-5, -1, 0, 2, 5}

\* A writer about to be asked to write a root that obeys the module
\* contract: it yields its samples and then returns false for good.
WavInit ==
    /\ wav_root \in SeqsUpTo(WavSamples, MaxWavLen)
    /\ wav_root_pos = 0
    /\ wav_state = "new"
    /\ wav_m_samples = 0
    /\ wav_data = <<>>
    /\ wav_pulls = <<>>
    /\ SilencerIdle
    /\ SplitterIdle
    /\ AdpcmIdle
    /\ EnvelopeIdle
    /\ TrackIdle
    /\ NormalizerIdle
    /\ NodeIdle
    /\ LcdIdle
    /\ EditIdle
    /\ ResamplerIdle
    /\ ReverbIdle
    /\ ChannelIdle

WavNext == wav_open \/ wav_batch

WavSpec == WavInit /\ [][WavNext]_vars

\* ------------------------- volume, filter, statistics, reverb and channel

\* The longest source these modules are given.
MaxNodeLen == 2

\* The next() calls followed: the source's samples, its end, and the filter's
\* tail.
MaxNodeCalls == MaxNodeLen + 4

\* next() of a source that obeys the module contract: its samples, then 0 and
\* false for good.  Every call is counted.
source_next(src, st) ==
    IF st.pos < Len(src)
    THEN [live |-> TRUE, s |-> src[st.pos + 1],
          st |-> [pos |-> st.pos + 1, calls |-> st.calls + 1]]
    ELSE [live |-> FALSE, s |-> 0, st |-> [pos |-> st.pos, calls |-> st.calls + 1]]

\* volume::next().
volume_next_twice(level, src, st) ==
    LET skipped == source_next(src, st)
        pulled == source_next(src, skipped.st)
    IN [live |-> pulled.live, s |-> pulled.s * level, st |-> pulled.st]

volume_next_from(level, src, st) ==
    LET pulled == source_next(src, st)
    IN [live |-> pulled.live, s |-> pulled.s * level, st |-> pulled.st]

volume_next ==
    /\ node_kind = "volume"
    /\ node_calls < MaxNodeCalls
    /\ LET got == volume_next_from(m_level, node_src, node_st)
       IN /\ node_st' = got.st
          /\ node_out' = Append(node_out, got.s)
          /\ node_ret' = got.live
    /\ node_calls' = node_calls + 1
    /\ UNCHANGED <<node_kind, node_src, node_src2, node_st2, m_level, m_x1, m_x2,
                   m_y1, m_y2, m_resampler, st_m_samples>>
    /\ UNCHANGED <<sil_vars, spl_vars, ad_vars, env_vars, trk_vars,
                   nm_vars, wav_vars, lcd_vars, ed_vars, rs_vars, rv_vars, chn_vars>>

\* The filter's coefficients a0, a1, a2, b1, b2 in eighths, near those of a
\* low-pass filter cutting off at a quarter of the sample rate; the products
\* are summed exactly and the sum is cut to a whole sample, which is where
\* values too small to matter are flushed to zero.
FilterCoefficients == <<2, 5, 2, 0, 1>>

filter_output(x, x1, x2, y1, y2) ==
    to_int32(FilterCoefficients[1] * x + FilterCoefficients[2] * x1
             + FilterCoefficients[3] * x2 - FilterCoefficients[4] * y1
             - FilterCoefficients[5] * y2, 8)

\* filter::next(): one source sample in, one filtered sample out; the filter
\* goes on running while its memory is audible.
filter_next ==
    /\ node_kind = "filter"
    /\ node_calls < MaxNodeCalls
    /\ LET pulled == source_next(node_src, node_st)
           s == filter_output(pulled.s, m_x1, m_x2, m_y1, m_y2)
       IN /\ node_st' = pulled.st
          /\ m_x2' = m_x1
          /\ m_x1' = pulled.s
          /\ m_y2' = m_y1
          /\ m_y1' = s
          /\ node_out' = Append(node_out, s)
          /\ node_ret' = (pulled.live \/ ~is_silent(m_x1') \/ ~is_silent(m_x2')
                          \/ ~is_silent(m_y1') \/ ~is_silent(m_y2'))
    /\ node_calls' = node_calls + 1
    /\ UNCHANGED <<node_kind, node_src, node_src2, node_st2, m_level, m_resampler,
                   st_m_samples>>
    /\ UNCHANGED <<sil_vars, spl_vars, ad_vars, env_vars, trk_vars,
                   nm_vars, wav_vars, lcd_vars, ed_vars, rs_vars, rv_vars, chn_vars>>

\* statistics::next(): the sample is counted and passed on.
statistics_next ==
    /\ node_kind = "statistics"
    /\ node_calls < MaxNodeCalls
    /\ LET pulled == source_next(node_src, node_st)
       IN /\ node_st' = pulled.st
          /\ node_out' = Append(node_out, pulled.s)
          /\ node_ret' = pulled.live
    /\ st_m_samples' = st_m_samples + 1
    /\ node_calls' = node_calls + 1
    /\ UNCHANGED <<node_kind, node_src, node_src2, node_st2, m_level, m_x1, m_x2,
                   m_y1, m_y2, m_resampler>>
    /\ UNCHANGED <<sil_vars, spl_vars, ad_vars, env_vars, trk_vars,
                   nm_vars, wav_vars, lcd_vars, ed_vars, rs_vars, rv_vars, chn_vars>>

\* reverb::next(): the original stream and the reverb stream are each pulled
\* and mixed.
reverb_next ==
    /\ node_kind = "reverb"
    /\ node_calls < MaxNodeCalls
    /\ LET original == source_next(node_src, node_st)
           r == source_next(node_src2, node_st2)
       IN /\ node_st' = original.st
          /\ node_st2' = r.st
          /\ node_out' = Append(node_out, original.s + r.s)
          /\ node_ret' = (original.live \/ r.live)
    /\ node_calls' = node_calls + 1
    /\ UNCHANGED <<node_kind, node_src, node_src2, m_level, m_x1, m_x2, m_y1, m_y2,
                   m_resampler, st_m_samples>>
    /\ UNCHANGED <<sil_vars, spl_vars, ad_vars, env_vars, trk_vars,
                   nm_vars, wav_vars, lcd_vars, ed_vars, rs_vars, rv_vars, chn_vars>>

\* channel::next(): silence and false once the resampler is gone; otherwise
\* the waveform and the envelope are each pulled, and the resampler is
\* dropped when either has stopped.
channel_next_sample ==
    /\ node_kind = "channel"
    /\ node_calls < MaxNodeCalls
    /\ IF ~m_resampler
       THEN /\ node_out' = Append(node_out, 0)
            /\ node_ret' = FALSE
            /\ UNCHANGED <<node_st, node_st2, m_resampler>>
       ELSE LET waveform == source_next(node_src, node_st)
                envelope == source_next(node_src2, node_st2)
            IN /\ node_st' = waveform.st
               /\ node_st2' = envelope.st
               /\ node_out' = Append(node_out, waveform.s * envelope.s * m_level)
               /\ m_resampler' = (waveform.live /\ envelope.live)
               /\ node_ret' = TRUE
    /\ node_calls' = node_calls + 1
    /\ UNCHANGED <<node_kind, node_src, node_src2, m_level, m_x1, m_x2, m_y1, m_y2,
                   st_m_samples>>
    /\ UNCHANGED <<sil_vars, spl_vars, ad_vars, env_vars, trk_vars,
                   nm_vars, wav_vars, lcd_vars, ed_vars, rs_vars, rv_vars, chn_vars>>

NodeKinds == {"volume", "filter", "statistics", "reverb", "channel"}

\* Source samples: silence, and a loud sample of either sign.
NodeSamples == {0, 8, -8}

\* One of the modules straight after construction.
NodeInit ==
    /\ node_kind \in NodeKinds
    /\ node_src \in SeqsUpTo(NodeSamples, MaxNodeLen)
    /\ node_st = [pos |-> 0, calls |-> 0]
    /\ node_src2 \in IF node_kind \in {"reverb", "channel"}
                     THEN SeqsUpTo(NodeSamples, MaxNodeLen)
                     ELSE {<<>>}
    /\ node_st2 = [pos |-> 0, calls |-> 0]
    /\ m_level \in IF node_kind \in {"volume", "channel"} THEN {1, 2} ELSE {0}
    /\ m_x1 = 0
    /\ m_x2 = 0
    /\ m_y1 = 0
    /\ m_y2 = 0
    /\ m_resampler = (node_kind = "channel")
    /\ st_m_samples = 0
    /\ node_out = <<>>
    /\ node_ret = TRUE
    /\ node_calls = 0
    /\ SilencerIdle
    /\ SplitterIdle
    /\ AdpcmIdle
    /\ EnvelopeIdle
    /\ TrackIdle
    /\ NormalizerIdle
    /\ WavIdle
    /\ LcdIdle
    /\ EditIdle
    /\ ResamplerIdle
    /\ ReverbIdle
    /\ ChannelIdle

NodeNext ==
    \/ volume_next
    \/ filter_next
    \/ statistics_next
    \/ reverb_next
    \/ channel_next_sample

\* The modules of one pipeline side by side: in each run one of them is in
\* use, a silencer that trims nothing at either end, a splitter, or one of
\* the modules above.
PullInit ==
    \/ SilencerInit /\ m_lead_in = -1 /\ m_lead_out = -1
    \/ SplitterInit /\ Len(spl_src) <= 1
    \/ NodeInit

PullNext ==
    \/ NodeIdle /\ SplitterIdle /\ silencer_next
    \/ NodeIdle /\ SplitterIdle /\ silencer_is_running
    \/ \E c \in Children : ~SplitterIdle /\ splitter_next(c)
    \/ \E c \in Children : ~SplitterIdle /\ splitter_split(c)
    \/ \E c \in Children : ~SplitterIdle /\ splitter_destroy(c)
    \/ volume_next
    \/ filter_next
    \/ statistics_next
    \/ reverb_next
    \/ channel_next_sample

PullSpec == PullInit /\ [][PullNext]_vars

\* ----------------------------------------------- ADPCM editing, patch repair

\* The most blocks a patch holds.
MaxPatchBlocks == 4

\* adpcm::edit_adpcm: the payload of the first silence_start blocks is
\* zeroed, and remove_end blocks are cut off the end after the last block's
\* flag byte has been copied into the block remove_end blocks before it.
\* That block lies before the data when every block is removed: the byte is
\* then written outside the vector.
edit_adpcm(adpcm, silence_start, remove_end) ==
    LET n == Len(adpcm)
        silenced == [i \in 1..n |-> IF i <= silence_start
                                    THEN [adpcm[i] EXCEPT !.d = 0]
                                    ELSE adpcm[i]]
        flags == silenced[n].b1
        flagged == [i \in 1..n |-> IF i = n - remove_end
                                   THEN [silenced[i] EXCEPT !.b1 = flags]
                                   ELSE silenced[i]]
    IN IF remove_end > 0
       THEN [adpcm |-> SubSeq(flagged, 1, n - remove_end),
             outside |-> n - remove_end < 1]
       ELSE [adpcm |-> silenced, outside |-> FALSE]

\* The call itself.
edit_call ==
    /\ ~EditIdle
    /\ ~ed_done
    /\ LET edited == edit_adpcm(ed_adpcm, ed_silence_start, ed_remove_end)
       IN /\ ed_adpcm' = edited.adpcm
          /\ ed_outside' = edited.outside
    /\ ed_done' = TRUE
    /\ UNCHANGED <<ed_silence_start, ed_remove_end, ed_before>>
    /\ UNCHANGED <<sil_vars, spl_vars, ad_vars, env_vars, trk_vars,
                   nm_vars, wav_vars, node_vars, lcd_vars, rs_vars, rv_vars, chn_vars>>

\* ADPCM data as the LCD holds it: up to n blocks, the last one flagged
\* final, with or without its repeat jump flag, and any of the blocks
\* flagged as a repeat start; the payload is not silent.
PatchStreams(n) ==
    {s \in SeqsUpTo([b0 : {0}, b1 : {0, 1, 3, 4, 5, 7}, d : {17}], n) :
        /\ s # <<>>
        /\ \A i \in 1..Len(s) : is_final(s[i]) <=> i = Len(s)}

\* Data and arguments that edit_adpcm's assertion accepts.
EditInit ==
    /\ ed_adpcm \in PatchStreams(MaxPatchBlocks - 1)
    /\ ed_silence_start \in 0..Len(ed_adpcm)
    /\ ed_remove_end \in 0..(Len(ed_adpcm) - ed_silence_start)
    /\ ed_before = ed_adpcm
    /\ ed_outside = FALSE
    /\ ed_done = FALSE
    /\ SilencerIdle
    /\ SplitterIdle
    /\ AdpcmIdle
    /\ EnvelopeIdle
    /\ TrackIdle
    /\ NormalizerIdle
    /\ WavIdle
    /\ NodeIdle
    /\ LcdIdle
    /\ ResamplerIdle
    /\ ReverbIdle
    /\ ChannelIdle

EditNext == edit_call

EditSpec == EditInit /\ [][EditNext]_vars

\* lcd_file::m_patch_fixes: id, expected size in bytes, expected repeat
\* offset, blocks to silence at the start and blocks to remove from the end.
\* The sizes of the game's patches (thousands of blocks) are brought down to
\* four blocks, each entry keeping its kind: a repeat from the second block
\* with both edits, a repeat from inside the data with silencing only, a
\* repeat from the start with removal only, and a repeat from the second
\* block with removal only.
m_patch_fixes ==
    <<[id |-> 96, size |-> 64, repeat_offset |-> 16,
       silence_start_blocks |-> 2, remove_end_blocks |-> 1],
      [id |-> 102, size |-> 64, repeat_offset |-> 32,
       silence_start_blocks |-> 2, remove_end_blocks |-> 0],
      [id |-> 116, size |-> 64, repeat_offset |-> 0,
       silence_start_blocks |-> 0, remove_end_blocks |-> 2],
      [id |-> 130, size |-> 64, repeat_offset |-> 16,
       silence_start_blocks |-> 0, remove_end_blocks |-> 2]>>

FixIds == {m_patch_fixes[i].id : i \in 1..Len(m_patch_fixes)}

\* The test repair_patches() makes before it edits a patch.
details_differ(fix, adpcm) ==
    LET repeat == repeat_offset(adpcm)
    IN \/ fix.size # Len(adpcm) * PSXDMH_ADPCM_BLOCK_SIZE
       \/ (repeat >= 0 /\ repeat # fix.repeat_offset)
       \/ (repeat < 0 /\ fix.repeat_offset < 0)

\* The loop of repair_patches() from entry fix on: an absent patch is
\* skipped, a patch whose details differ ends the call with an exception,
\* any other is edited and stored.
RECURSIVE repair_from(_, _)
repair_from(patches, fix) ==
    IF fix > Len(m_patch_fixes)
    THEN [patches |-> patches, thrown |-> 0]
    ELSE LET entry == m_patch_fixes[fix]
             adpcm == patches[entry.id]
         IN IF adpcm = <<>>
            THEN repair_from(patches, fix + 1)
            ELSE IF details_differ(entry, adpcm)
            THEN [patches |-> patches, thrown |-> entry.id]
            ELSE repair_from(
                     [patches EXCEPT ![entry.id] =
                         edit_adpcm(adpcm, entry.silence_start_blocks,
                                    entry.remove_end_blocks).adpcm],
                     fix + 1)

repair_patches ==
    /\ ~LcdIdle
    /\ ~rp_done
    /\ LET repaired == repair_from(m_patches, 1)
       IN /\ m_patches' = repaired.patches
          /\ rp_thrown' = repaired.thrown
    /\ rp_done' = TRUE
    /\ UNCHANGED rp_before
    /\ UNCHANGED <<sil_vars, spl_vars, ad_vars, env_vars, trk_vars,
                   nm_vars, wav_vars, node_vars, ed_vars, rs_vars, rv_vars, chn_vars>>

\* An LCD holding at most two of the listed patches, with any data.
LcdInit ==
    /\ \E present \in {ids \in SUBSET FixIds : Cardinality(ids) <= 2} :
           \E data \in [present -> PatchStreams(MaxPatchBlocks)] :
               m_patches = [id \in FixIds |-> IF id \in present THEN data[id] ELSE <<>>]
    /\ rp_before = m_patches
    /\ rp_thrown = 0
    /\ rp_done = FALSE
    /\ SilencerIdle
    /\ SplitterIdle
    /\ AdpcmIdle
    /\ EnvelopeIdle
    /\ TrackIdle
    /\ NormalizerIdle
    /\ WavIdle
    /\ NodeIdle
    /\ EditIdle
    /\ ResamplerIdle
    /\ ReverbIdle
    /\ ChannelIdle

LcdNext == repair_patches

LcdSpec == LcdInit /\ [][LcdNext]_vars

\* ----------------------------------------------------------- sinc resampler

\* Longest source stream fed to the resampler.
MaxRsLen == 3

\* The sample values of the resampler's sources.
RsSamples == {0, 1}

\* The streams a resampler's source may yield.
RsSources == UNION {[1..n -> RsSamples] : n \in 0..MaxRsLen}

\* The window sizes of the resamplers.
Windows == {1, 2, 3}

\* The output rates of the resamplers, and the input rates they are built
\* with.
Rates == {1, 2, 3}

\* The largest value of an int32_t.
INT32_MAX == 2147483647

\* The input rates a resampler may be switched to: as Rates, and a rate that
\* takes m_offset to the end of its type.
RatesIn == Rates \cup {INT32_MAX}

\* The table value 1.0 in the unit of the sinc table: thousandths.
SincOne == 1000

\* flush_denorm(mono_t(w * sin(pi x) * sin(pi x / w) / (pi x)^2)) in
\* thousandths, for the window w and x from 1/6 to w in steps of 1/6.  The
\* values at whole x, below 1e-16 in the code's arithmetic, are flushed to 0.
Kernel ==
    << <<912, 684, 405, 171, 36, 0>>,
       <<944, 790, 573, 342, 141, 0, -72, -85, -64, -32, -8, 0>>,
       <<950, 810, 608, 381, 168, 0, -105, -146, -135, -93, -42, 0, 25, 31, 24, 13, 3, 0>>,
       <<952, 818, 620, 395, 178, 0, -118, -171, -166, -122, -60, 0, 43, 62, 60, 43, 20, 0,
         -12, -16, -13, -7, -2, 0>> >>

\* One value of the sinc table: the windowed sinc at pos steps of 1/rate_out.
sinc_value(window, rate_out, pos) ==
    IF pos = 0 THEN SincOne ELSE Kernel[window][(Abs(pos) * 6) \div rate_out]

\* sinc_table::sinc_table: for every offset the 2 * window values at
\* base_pos - offset, stepping by rate_out.  The table is indexed from 0.
sinc_table(window, rate_out) ==
    [index \in 0..(rate_out * window * 2 - 1) |->
        sinc_value(window, rate_out,
                   -((window - 1) * rate_out) - (index \div (window * 2))
                       + (index % (window * 2)) * rate_out)]

\* sinc_table::index_for_offset.
index_for_offset(offset, window) == offset * window * 2

\* What the source gives to its n-th next() call: a sample, or 0 once it has
\* stopped.
rs_source_sample(src, n) == IF n <= Len(src) THEN src[n] ELSE 0

\* The value of pos in the constructor's loop when it fills the buffer entry
\* of an index (from 1).
prime_pos(index, window, rate_out) == -rate_out * (window - 1) + (index - 1) * rate_out

\* A constructor that starts pulling new samples where pos is zero.
prime_pulls_from_zero(index, window, rate_out) ==
    Cardinality({j \in 1..index : prime_pos(j, window, rate_out) >= 0})

\* The number of samples the constructor's loop has pulled when it has
\* filled the buffer entries up to an index.
prime_pulls(index, window, rate_out) ==
    Cardinality({j \in 1..index : prime_pos(j, window, rate_out) > 0})

\* resampler_sinc::resampler_sinc: the buffer (indexed from 1 here) holds the
\* first sample, repeated up to where pos is 0, then new samples.
primed_buffer(src, window, rate_out) ==
    [i \in 1..(window * 2) |->
        IF i = 1 \/ prime_pos(i - 1, window, rate_out) <= 0
        THEN rs_source_sample(src, 1)
        ELSE rs_source_sample(src, 1 + prime_pulls(i - 1, window, rate_out))]

\* The number of samples the source has given when the constructor returns.
primed_position(src, window, rate_out) ==
    LET pulled == 1 + prime_pulls(window * 2 - 1, window, rate_out)
    IN IF pulled < Len(src) THEN pulled ELSE Len(src)

\* The sum of resampler_sinc::next: n buffer entries from buffer_index on,
\* each times the table entry from table_index on.
RECURSIVE interpolate(_, _, _, _, _)
interpolate(buffer, buffer_index, table, table_index, n) ==
    IF n = 0
    THEN 0
    ELSE buffer[buffer_index + 1] * table[table_index]
         + interpolate(buffer, (buffer_index + 1) % Len(buffer), table, table_index + 1, n - 1)

\* m_offset += rate_in, an int32_t plus a uint32_t: the sum modulo 2^32 as
\* an int32_t.  The offset is not negative.
offset_plus(offset, rate_in) ==
    IF rate_in > INT32_MAX - offset
    THEN (offset - (INT32_MAX - rate_in) - 1) - INT32_MAX - 1
    ELSE offset + rate_in

\* The sample the advance loop of next() stores on its i-th turn (from 0):
\* the source's next sample, or once the source has stopped the sample of
\* the previous buffer entry, which is the last one stored.
stored_sample(src, pos, buffer, head, i) ==
    IF i < Len(src) - pos
    THEN src[pos + i + 1]
    ELSE IF pos < Len(src)
    THEN src[Len(src)]
    ELSE buffer[((head + Len(buffer) - 1) % Len(buffer)) + 1]

\* The buffer after the advance loop has made a number of turns: an entry
\* holds what the last turn that came by it stored.
advanced_buffer(src, pos, buffer, head, turns) ==
    [j \in 1..Len(buffer) |->
        LET d == (j - 1 - head + Len(buffer)) % Len(buffer)
        IN IF d >= turns
           THEN buffer[j]
           ELSE stored_sample(src, pos, buffer, head,
                              d + Len(buffer) * ((turns - 1 - d) \div Len(buffer)))]

\* resampler::rate_in, as channel::frequency calls it for a pitch bend.
resampler_rate_in ==
    /\ ~rs_fault
    /\ \E new_rate \in RatesIn : m_rate_in' = new_rate
    /\ rs_op' = "rate_in"
    /\ UNCHANGED <<rs_src, rs_pos, m_window, m_rate_out, m_circular_buffer, m_buffer_head,
                   m_offset, m_live_samples, rs_count, rs_s, rs_ret, rs_equal, rs_fault,
                   rs_turns>>
    /\ UNCHANGED <<sil_vars, spl_vars, ad_vars, env_vars, trk_vars,
                   nm_vars, wav_vars, node_vars, lcd_vars, ed_vars, rv_vars, chn_vars>>

\* resampler_sinc::next.  A call that finds m_offset outside [0, rate_out)
\* reads outside the sinc table.
resampler_next ==
    /\ ~rs_fault
    /\ rs_op' = "next"
    /\ IF m_live_samples <= 0
       THEN /\ rs_ret' = FALSE
            /\ rs_s' = 0
            /\ rs_turns' = 0
            /\ UNCHANGED <<rs_pos, m_circular_buffer, m_buffer_head, m_offset, m_live_samples,
                           rs_count, rs_equal, rs_fault>>
       ELSE IF m_offset < 0 \/ m_offset >= m_rate_out
       THEN /\ rs_fault' = TRUE
            /\ UNCHANGED <<rs_pos, m_circular_buffer, m_buffer_head, m_offset, m_live_samples,
                           rs_count, rs_s, rs_ret, rs_equal, rs_turns>>
       ELSE LET s == interpolate(m_circular_buffer, m_buffer_head,
                                 sinc_table(m_window, m_rate_out),
                                 index_for_offset(m_offset, m_window), m_window * 2)
                sum == offset_plus(m_offset, m_rate_in)
                turns == IF sum >= m_rate_out THEN sum \div m_rate_out ELSE 0
                live == IF turns < Len(rs_src) - rs_pos THEN turns ELSE Len(rs_src) - rs_pos
            IN /\ rs_s' = s
               /\ rs_count' = rs_count + 1
               /\ rs_ret' = TRUE
               /\ rs_equal' = (rs_equal /\ m_rate_in = m_rate_out)
               /\ rs_turns' = turns
               /\ m_offset' = IF sum >= m_rate_out THEN sum % m_rate_out ELSE sum
               /\ m_circular_buffer' =
                      advanced_buffer(rs_src, rs_pos, m_circular_buffer, m_buffer_head, turns)
               /\ m_buffer_head' = (m_buffer_head + (turns % (m_window * 2))) % (m_window * 2)
               /\ m_live_samples' = m_live_samples - (turns - live)
               /\ rs_pos' = rs_pos + live
               /\ UNCHANGED rs_fault
    /\ UNCHANGED <<rs_src, m_window, m_rate_in, m_rate_out>>
    /\ UNCHANGED <<sil_vars, spl_vars, ad_vars, env_vars, trk_vars,
                   nm_vars, wav_vars, node_vars, lcd_vars, ed_vars, rv_vars, chn_vars>>

\* A resampler straight after construction.
ResamplerInit ==
    /\ rs_src \in RsSources
    /\ m_window \in Windows
    /\ m_rate_in \in Rates
    /\ m_rate_out \in Rates
    /\ m_circular_buffer = primed_buffer(rs_src, m_window, m_rate_out)
    /\ rs_pos = primed_position(rs_src, m_window, m_rate_out)
    /\ m_buffer_head = 0
    /\ m_offset = 0
    /\ m_live_samples = m_window * 2
    /\ rs_count = 0
    /\ rs_s = 0
    /\ rs_ret = TRUE
    /\ rs_equal = TRUE
    /\ rs_fault = FALSE
    /\ rs_turns = 0
    /\ rs_op = "none"
    /\ SilencerIdle
    /\ SplitterIdle
    /\ AdpcmIdle
    /\ EnvelopeIdle
    /\ TrackIdle
    /\ NormalizerIdle
    /\ WavIdle
    /\ NodeIdle
    /\ LcdIdle
    /\ EditIdle
    /\ ReverbIdle
    /\ ChannelIdle

ResamplerNext == resampler_next \/ resampler_rate_in

ResamplerSpec == ResamplerInit /\ [][ResamplerNext]_vars

\* ------------------------------------------------------------- reverb core

\* Most entries of the delay buffer of a reverb core that is run.
MaxReverbSize == 3

\* Longest source stream fed to a reverb core.
MaxRvLen == 2

\* The next() calls the model follows a reverb core for.
MaxRvCalls == MaxRvLen + 2 * MaxReverbSize + 1

\* The usable presets, by their number in reverb_preset: room to space echo.
ReverbPresets == 1..7

\* reverb_core::m_registers: the 32 SPU registers of the presets off, room,
\* studio small, studio medium, studio large, hall, half echo and space echo.
m_registers ==
    <<
       <<0, 0, 0, 0, 0, 0, 0, 0,
         0, 0, 0, 0, 0, 0, 0, 0,
         0, 0, 0, 0, 0, 0, 0, 0,
         0, 0, 0, 0, 0, 0, 0, 0>>,
       <<125, 91, 28032, 21688, 48848, 0, 0, 47744,
         22528, 21248, 1238, 819, 1008, 551, 884, 495,
         820, 437, 0, 0, 0, 0, 0, 0,
         0, 0, 436, 310, 184, 92, 32768, 32768>>,
       <<51, 37, 28912, 20392, 48352, 17424, 49392, 39936,
         21120, 20160, 996, 795, 932, 687, 882, 614,
         796, 605, 604, 398, 559, 309, 466, 183,
         399, 181, 180, 128, 76, 38, 32768, 32768>>,
       <<177, 127, 28912, 20392, 48352, 17680, 48880, 46272,
         21120, 20160, 2308, 1899, 2084, 1631, 1954, 1558,
         1900, 1517, 1516, 1070, 1295, 773, 1122, 695,
         1071, 613, 612, 434, 256, 128, 32768, 32768>>,
       <<227, 169, 28512, 20392, 48352, 17680, 48880, 42624,
         22144, 21184, 3579, 2904, 3337, 2620, 3033, 2419,
         2905, 2266, 2265, 1513, 2028, 1200, 1775, 978,
         1514, 797, 796, 568, 340, 170, 32768, 32768>>,
       <<421, 313, 24576, 20480, 19456, 47104, 48128, 49152,
         24576, 23552, 5562, 4539, 5314, 4285, 4540, 3521,
         4544, 3523, 3520, 2497, 3012, 1985, 2560, 1741,
         2498, 1473, 1472, 1050, 628, 314, 32768, 32768>>,
       <<23, 19, 28912, 20392, 48352, 17680, 48880, 34048,
         24448, 21696, 881, 687, 741, 479, 688, 471,
         856, 618, 470, 286, 301, 177, 287, 89,
         416, 227, 88, 64, 40, 20, 32768, 32768>>,
       <<829, 561, 32256, 20480, 46080, 45056, 19456, 45056,
         24576, 21504, 7894, 6705, 7444, 6203, 7106, 5810,
         6706, 5615, 5614, 4181, 4916, 3885, 4598, 3165,
         4182, 2785, 2784, 1954, 1124, 562, 32768, 32768>> >>

\* reverb_core::m_buffer_size in entries: the byte sizes over
\* sizeof(uint16_t).
m_buffer_size == <<2 \div 2, 9920 \div 2, 8000 \div 2, 18496 \div 2, 28640 \div 2, 44512 \div 2,
                   15360 \div 2, 63168 \div 2>>

\* Register number reg (from 0) of a preset.
register(preset, reg) == m_registers[preset + 1][reg + 1]

\* reverb_core::reg_to_offset: bytes / 8 to an array offset.
reg_to_offset(v) == (v * 8) \div 2

\* The int16_t a uint16_t register is cast to.
to_int16(v) == IF v >= 32768 THEN v - 65536 ELSE v

\* x / d rounded toward zero.
truncated(x, d) == IF x < 0 THEN -((-x) \div d) ELSE x \div d

\* A sample times reg_to_volume(v), which is int16_t(v) / 32768.
times_volume(x, v) == truncated(x * to_int16(v), 32768)

\* The offset a register gives in a buffer of size entries: reg_to_offset for
\* the preset's own buffer, and in proportion for a smaller one.
offset_of(preset, reg, size) ==
    (reg_to_offset(register(preset, reg)) * size) \div m_buffer_size[preset + 1]

\* A wrap that subtracts nothing.
wrap_offset_never(offset, size) == offset

\* reverb_core::wrap_offset.
wrap_offset(offset, size) == IF offset < size THEN offset ELSE offset - size

\* The address and offset registers: dAPF1, dAPF2 and registers 0x0a to 0x1d.
OffsetRegisters == {0, 1} \cup (10..29)

\* The derived offsets of the constructor, before they are wrapped: each
\* register's offset plus the buffer size minus 1 or minus an all pass
\* filter offset.
derived_sums(preset, size) ==
    [mlsame_1 |-> offset_of(preset, 10, size) + size - 1,
     mrsame_1 |-> offset_of(preset, 11, size) + size - 1,
     mldiff_1 |-> offset_of(preset, 18, size) + size - 1,
     mrdiff_1 |-> offset_of(preset, 19, size) + size - 1,
     mlapf1_dapf1 |-> offset_of(preset, 26, size) + size - offset_of(preset, 0, size),
     mrapf1_dapf1 |-> offset_of(preset, 27, size) + size - offset_of(preset, 0, size),
     mlapf2_dapf2 |-> offset_of(preset, 28, size) + size - offset_of(preset, 1, size),
     mrapf2_dapf2 |-> offset_of(preset, 29, size) + size - offset_of(preset, 1, size)]

\* reverb_core::reverb_core: the derived offsets.
derived_offsets(preset, size) ==
    CHOOSE wrapped \in {[name \in DOMAIN sums |-> wrap_offset(sums[name], size)] :
                            sums \in {derived_sums(preset, size)}} : TRUE

\* Every offset next() passes to read_buffer or write_buffer.
used_offsets(preset, size) ==
    {offset_of(preset, reg, size) : reg \in 10..29}
        \cup UNION {{derived[name] : name \in DOMAIN derived} :
                        derived \in {derived_offsets(preset, size)}}

\* read_buffer and write_buffer: the buffer index (from 0) of an offset.
buffer_index(current, offset, size) == wrap_offset(current + offset, size)

\* reverb_core::read_buffer.
read_buffer(buffer, current, offset) ==
    buffer[buffer_index(current, offset, Len(buffer)) + 1]

\* reverb_core::write_buffer; a value flush_denorm zeroes is below the
\* model's unit.
write_buffer(buffer, current, offset, v) ==
    [buffer EXCEPT ![buffer_index(current, offset, Len(buffer)) + 1] = v]

\* m_silence of the constructor: PSXDMH_SILENCE over the volume 1 / volume_div.
silence_of(volume_div) == PSXDMH_SILENCE * volume_div

\* One stage of reverb_core::next applied to the state st the stage before
\* has left, st being worked out once.
staged(stage(_, _, _), preset, current, st) ==
    CHOOSE after \in {stage(preset, current, x) : x \in {st}} : TRUE

\* The value of a reflection: (in + wall * vWALL - prev) * vIIR + prev.
reflection(preset, in, wall, prev) ==
    times_volume(in + times_volume(wall, register(preset, 7)) - prev, register(preset, 2)) + prev

\* Same side reflection, left: both previous values are read first.
same_left(preset, current, st) ==
    LET size == Len(st.buffer)
        d == derived_offsets(preset, size)
        prev_mlsame == read_buffer(st.buffer, current, d.mlsame_1)
    IN [st EXCEPT
           !.prev = read_buffer(st.buffer, current, d.mrsame_1),
           !.buffer = write_buffer(st.buffer, current, offset_of(preset, 10, size),
                          reflection(preset, st.lin,
                                     read_buffer(st.buffer, current, offset_of(preset, 16, size)),
                                     prev_mlsame))]

\* Same side reflection, right.
same_right(preset, current, st) ==
    LET size == Len(st.buffer)
    IN [st EXCEPT
           !.buffer = write_buffer(st.buffer, current, offset_of(preset, 11, size),
                          reflection(preset, st.rin,
                                     read_buffer(st.buffer, current, offset_of(preset, 17, size)),
                                     st.prev))]

\* Different side reflection, left.
diff_left(preset, current, st) ==
    LET size == Len(st.buffer)
        d == derived_offsets(preset, size)
        prev_mldiff == read_buffer(st.buffer, current, d.mldiff_1)
    IN [st EXCEPT
           !.prev = read_buffer(st.buffer, current, d.mrdiff_1),
           !.buffer = write_buffer(st.buffer, current, offset_of(preset, 18, size),
                          reflection(preset, st.lin,
                                     read_buffer(st.buffer, current, offset_of(preset, 25, size)),
                                     prev_mldiff))]

\* Different side reflection, right.
diff_right(preset, current, st) ==
    LET size == Len(st.buffer)
    IN [st EXCEPT
           !.buffer = write_buffer(st.buffer, current, offset_of(preset, 19, size),
                          reflection(preset, st.rin,
                                     read_buffer(st.buffer, current, offset_of(preset, 24, size)),
                                     st.prev))]

\* Early echo: the four combs of each side.
early_echo(preset, current, st) ==
    LET size == Len(st.buffer)
        comb(reg, volume) ==
            times_volume(read_buffer(st.buffer, current, offset_of(preset, reg, size)),
                         register(preset, volume))
    IN [st EXCEPT !.lout = comb(12, 3) + comb(14, 4) + comb(20, 5) + comb(22, 6),
                  !.rout = comb(13, 3) + comb(15, 4) + comb(21, 5) + comb(23, 6)]

\* One side of an all pass filter: out is taken through the filter whose
\* address register is reg, whose derived offset is at and whose volume
\* register is volume.  Gives the new buffer and the new out.
all_pass(preset, current, buffer, out, reg, at, volume) ==
    LET fed == out - times_volume(read_buffer(buffer, current, at), register(preset, volume))
        written == write_buffer(buffer, current, offset_of(preset, reg, Len(buffer)), fed)
    IN [buffer |-> written,
        out |-> times_volume(fed, register(preset, volume)) + read_buffer(written, current, at)]

\* Late reverb all pass filter 1, left and right.
apf1_left(preset, current, st) ==
    LET r == all_pass(preset, current, st.buffer, st.lout, 26,
                      derived_offsets(preset, Len(st.buffer)).mlapf1_dapf1, 8)
    IN [st EXCEPT !.buffer = r.buffer, !.lout = r.out]

apf1_right(preset, current, st) ==
    LET r == all_pass(preset, current, st.buffer, st.rout, 27,
                      derived_offsets(preset, Len(st.buffer)).mrapf1_dapf1, 8)
    IN [st EXCEPT !.buffer = r.buffer, !.rout = r.out]

\* Late reverb all pass filter 2, left and right.
apf2_left(preset, current, st) ==
    LET r == all_pass(preset, current, st.buffer, st.lout, 28,
                      derived_offsets(preset, Len(st.buffer)).mlapf2_dapf2, 9)
    IN [st EXCEPT !.buffer = r.buffer, !.lout = r.out]

apf2_right(preset, current, st) ==
    LET r == all_pass(preset, current, st.buffer, st.rout, 29,
                      derived_offsets(preset, Len(st.buffer)).mrapf2_dapf2, 9)
    IN [st EXCEPT !.buffer = r.buffer, !.rout = r.out]

\* The body of reverb_core::next on the input <<left, right>>: the new
\* buffer and the output sample (lout, rout) before the volume is applied.
reverb_pass(preset, buffer, current, input) ==
    staged(apf2_right, preset, current,
     staged(apf2_left, preset, current,
      staged(apf1_right, preset, current,
       staged(apf1_left, preset, current,
        staged(early_echo, preset, current,
         staged(diff_right, preset, current,
          staged(diff_left, preset, current,
           staged(same_right, preset, current,
            staged(same_left, preset, current,
                   [buffer |-> buffer,
                    lin |-> times_volume(input[1], register(preset, 30)),
                    rin |-> times_volume(input[2], register(preset, 31)),
                    prev |-> 0, lout |-> 0, rout |-> 0])))))))))

\* A scan that gives up after the entry it starts at.
RECURSIVE scan_start_only(_, _, _, _, _)
scan_start_only(buffer, silence, start, last, count) ==
    IF Abs(buffer[last + 1]) > silence
    THEN [last |-> last, count |-> count + 1]
    ELSE [last |-> (last + 1) % Len(buffer), count |-> count + 1]

\* The loop of reverb_core::is_running: from last on, entries are inspected
\* until one is above the threshold or the scan is back at start.  Gives
\* the new m_last_unsilent_sample and the number of entries inspected.
RECURSIVE scan(_, _, _, _, _)
scan(buffer, silence, start, last, count) ==
    IF Abs(buffer[last + 1]) > silence
    THEN [last |-> last, count |-> count + 1]
    ELSE LET following == IF last + 1 >= Len(buffer) THEN 0 ELSE last + 1
         IN IF following = start
            THEN [last |-> following, count |-> count + 1]
            ELSE scan(buffer, silence, start, following, count + 1)

\* reverb_core::is_running on the fields given: the result, the new
\* m_buffer_is_silent and m_last_unsilent_sample, and the entries inspected.
is_running_of(source_running, buffer, silence, buffer_is_silent, last_unsilent_sample) ==
    IF source_running
    THEN [ret |-> TRUE, silent |-> buffer_is_silent, last |-> last_unsilent_sample,
          count |-> 0]
    ELSE IF buffer_is_silent
    THEN [ret |-> FALSE, silent |-> TRUE, last |-> last_unsilent_sample, count |-> 0]
    ELSE LET found == scan(buffer, silence, last_unsilent_sample, last_unsilent_sample, 0)
             silent == Abs(buffer[found.last + 1]) <= silence
         IN [ret |-> ~silent, silent |-> silent, last |-> found.last, count |-> found.count]

\* reverb_core::is_running.
reverb_is_running ==
    /\ rv_op # "none"
    /\ rv_op # "offsets"
    /\ LET r == is_running_of(rv_pos < Len(rv_src), rv_buffer, silence_of(rv_volume),
                              m_buffer_is_silent, m_last_unsilent_sample)
       IN /\ rv_ret' = r.ret
          /\ m_buffer_is_silent' = r.silent
          /\ m_last_unsilent_sample' = r.last
          /\ rv_scanned' = r.count
          /\ rv_stopped' = (rv_stopped \/ ~r.ret)
    /\ rv_op' = "is_running"
    /\ UNCHANGED <<rv_preset, rv_size, rv_volume, rv_src, rv_pos, rv_buffer, rv_current, rv_s,
                   rv_indices, rv_calls>>
    /\ UNCHANGED <<sil_vars, spl_vars, ad_vars, env_vars, trk_vars,
                   nm_vars, wav_vars, node_vars, lcd_vars, ed_vars, rs_vars, chn_vars>>

\* reverb_core::next.
reverb_core_next ==
    /\ rv_op # "none"
    /\ rv_op # "offsets"
    /\ rv_calls < MaxRvCalls
    /\ rv_calls' = rv_calls + 1
    /\ LET source_live == rv_pos < Len(rv_src)
           input == IF source_live THEN rv_src[rv_pos + 1] ELSE <<0, 0>>
           r == is_running_of(FALSE, rv_buffer, silence_of(rv_volume),
                              m_buffer_is_silent, m_last_unsilent_sample)
           live == source_live \/ r.ret
       IN \E pass \in {reverb_pass(rv_preset, rv_buffer, rv_current, input)} :
          /\ rv_pos' = IF source_live THEN rv_pos + 1 ELSE rv_pos
          /\ m_buffer_is_silent' = IF source_live THEN m_buffer_is_silent ELSE r.silent
          /\ m_last_unsilent_sample' = IF source_live THEN m_last_unsilent_sample ELSE r.last
          /\ rv_scanned' = IF source_live THEN 0 ELSE r.count
          /\ rv_ret' = live
          /\ rv_stopped' = (rv_stopped \/ ~live)
          /\ rv_buffer' = IF live THEN pass.buffer ELSE rv_buffer
          /\ rv_s' = IF live
                     THEN <<truncated(pass.lout, rv_volume), truncated(pass.rout, rv_volume)>>
                     ELSE <<0, 0>>
          /\ rv_current' = IF live
                           THEN (IF rv_current + 1 >= rv_size THEN 0 ELSE rv_current + 1)
                           ELSE rv_current
    /\ rv_op' = "next"
    /\ UNCHANGED <<rv_preset, rv_size, rv_volume, rv_src, rv_indices>>
    /\ UNCHANGED <<sil_vars, spl_vars, ad_vars, env_vars, trk_vars,
                   nm_vars, wav_vars, node_vars, lcd_vars, ed_vars, rs_vars, chn_vars>>

\* The buffer indices one next() call reads and writes at the current
\* position.
reverb_offsets ==
    /\ rv_op = "none"
    /\ rv_preset # 0
    /\ rv_indices' = {buffer_index(rv_current, offset, rv_size) :
                          offset \in used_offsets(rv_preset, rv_size)}
    /\ rv_op' = "offsets"
    /\ UNCHANGED <<rv_preset, rv_size, rv_volume, rv_src, rv_pos, rv_buffer, rv_current,
                   m_buffer_is_silent, m_last_unsilent_sample, rv_ret, rv_s, rv_scanned,
                   rv_stopped, rv_calls>>
    /\ UNCHANGED <<sil_vars, spl_vars, ad_vars, env_vars, trk_vars,
                   nm_vars, wav_vars, node_vars, lcd_vars, ed_vars, rs_vars, chn_vars>>

\* The stereo samples of the reverb core's sources.
RvSamples == {<<0, 0>>, <<3, -3>>, <<8, 0>>}

\* A reverb core of one of the usable presets with its own buffer size, at
\* any position of the buffer.
ReverbOffsetsInit ==
    /\ rv_preset \in ReverbPresets
    /\ rv_size = m_buffer_size[rv_preset + 1]
    /\ rv_current \in 0..(rv_size - 1)
    /\ rv_volume = 1
    /\ rv_src = <<>>
    /\ rv_pos = 0
    /\ rv_buffer = <<>>
    /\ m_buffer_is_silent = FALSE
    /\ m_last_unsilent_sample = 0
    /\ rv_op = "none"
    /\ rv_ret = TRUE
    /\ rv_s = <<0, 0>>
    /\ rv_scanned = 0
    /\ rv_stopped = FALSE
    /\ rv_indices = {}
    /\ rv_calls = 0
    /\ SilencerIdle
    /\ SplitterIdle
    /\ AdpcmIdle
    /\ EnvelopeIdle
    /\ TrackIdle
    /\ NormalizerIdle
    /\ WavIdle
    /\ NodeIdle
    /\ LcdIdle
    /\ EditIdle
    /\ ResamplerIdle
    /\ ChannelIdle

ReverbOffsetsNext == reverb_offsets

ReverbOffsetsSpec == ReverbOffsetsInit /\ [][ReverbOffsetsNext]_vars

\* A reverb core straight after construction, over a source of up to
\* MaxRvLen samples.  The delay buffer has fewer entries than the preset's
\* own, the offsets keeping their proportions; the volume is 1 or 1/2 on
\* both sides.
ReverbInit ==
    /\ rv_preset \in ReverbPresets
    /\ rv_size \in 2..MaxReverbSize
    /\ rv_volume \in {1, 2}
    /\ rv_src \in UNION {[1..n -> RvSamples] : n \in 0..MaxRvLen}
    /\ rv_pos = 0
    /\ rv_buffer = [i \in 1..rv_size |-> 0]
    /\ rv_current = 0
    /\ m_buffer_is_silent = FALSE
    /\ m_last_unsilent_sample = 0
    /\ rv_op = "new"
    /\ rv_ret = TRUE
    /\ rv_s = <<0, 0>>
    /\ rv_scanned = 0
    /\ rv_stopped = FALSE
    /\ rv_indices = {}
    /\ rv_calls = 0
    /\ SilencerIdle
    /\ SplitterIdle
    /\ AdpcmIdle
    /\ EnvelopeIdle
    /\ TrackIdle
    /\ NormalizerIdle
    /\ WavIdle
    /\ NodeIdle
    /\ LcdIdle
    /\ EditIdle
    /\ ResamplerIdle
    /\ ChannelIdle

ReverbNext == reverb_core_next \/ reverb_is_running

ReverbSpec == ReverbInit /\ [][ReverbNext]_vars

\* ----------------------------------------------------------------- channel

\* Most next() calls made on a channel: enough for a released envelope or a
\* patch to end and for two calls after that.
MaxChannelCalls == MaxNotes + 1

\* The frequencies given to a channel: the lowest, the natural one, one above
\* the limit of the SPU, and 0.
Frequencies == {0, 1, 44100, 4 * 44100 + 1}

\* The master volumes given to a channel: silence and a full note at full
\* track volume.
MasterVolumes == {0, 127 * 127 * 127}

\* The sample of channel::next: waveform * envelope * m_volume, the waveform
\* and the envelope level being 1 while their source is live and 0 once it
\* has stopped.
channel_sample(c) ==
    LET waveform == IF c.samples_left # 0 THEN 1 ELSE 0
        envelope == IF c.env_stopped THEN 0 ELSE 1
    IN <<waveform * envelope * c.m_volume[1], waveform * envelope * c.m_volume[2]>>

\* channel::next.
chn_next ==
    /\ chn # <<>>
    /\ chn_calls < MaxChannelCalls
    /\ chn_op' = <<"next", 0>>
    /\ chn_calls' = chn_calls + 1
    /\ IF ~chn.m_resampler
       THEN /\ chn_s' = <<0, 0>>
            /\ chn_ret' = FALSE
            /\ UNCHANGED chn
       ELSE /\ chn_s' = channel_sample(chn)
            /\ chn' = channel_pulled(chn)
            /\ chn_ret' = TRUE
    /\ UNCHANGED <<sil_vars, spl_vars, ad_vars, env_vars, trk_vars,
                   nm_vars, wav_vars, node_vars, lcd_vars, ed_vars, rs_vars, rv_vars>>

\* channel::is_running.
chn_is_running ==
    /\ chn # <<>>
    /\ chn_op' = <<"is_running", 0>>
    /\ chn_ret' = channel_next(chn)
    /\ UNCHANGED <<chn, chn_s, chn_calls>>
    /\ UNCHANGED <<sil_vars, spl_vars, ad_vars, env_vars, trk_vars,
                   nm_vars, wav_vars, node_vars, lcd_vars, ed_vars, rs_vars, rv_vars>>

\* channel::frequency.
chn_frequency ==
    /\ chn # <<>>
    /\ \E new_frequency \in Frequencies :
           /\ chn' = channel_frequency(chn, new_frequency)
           /\ chn_op' = <<"frequency", new_frequency>>
    /\ UNCHANGED <<chn_ret, chn_s, chn_calls>>
    /\ UNCHANGED <<sil_vars, spl_vars, ad_vars, env_vars, trk_vars,
                   nm_vars, wav_vars, node_vars, lcd_vars, ed_vars, rs_vars, rv_vars>>

\* channel::release, at most twice.
chn_release ==
    /\ chn # <<>>
    /\ chn.releases < 2
    /\ chn' = channel_release(chn)
    /\ chn_op' = <<"release", 0>>
    /\ UNCHANGED <<chn_ret, chn_s, chn_calls>>
    /\ UNCHANGED <<sil_vars, spl_vars, ad_vars, env_vars, trk_vars,
                   nm_vars, wav_vars, node_vars, lcd_vars, ed_vars, rs_vars, rv_vars>>

\* channel::master_volume.
chn_master_volume ==
    /\ chn # <<>>
    /\ \E volume \in MasterVolumes :
           /\ chn' = channel_master_volume(chn, volume)
           /\ chn_op' = <<"master_volume", volume>>
    /\ UNCHANGED <<chn_ret, chn_s, chn_calls>>
    /\ UNCHANGED <<sil_vars, spl_vars, ad_vars, env_vars, trk_vars,
                   nm_vars, wav_vars, node_vars, lcd_vars, ed_vars, rs_vars, rv_vars>>

\* A channel straight after construction: one of the sub-instruments at its
\* natural frequency, centred, with or without the limit of the SPU.
ChannelInit ==
    /\ \E sub \in Instruments, apply_psx_limit \in BOOLEAN :
           chn = channel(sub, 44100, 127 * 127 * 127, 64, apply_psx_limit)
    /\ chn_op = <<"none", 0>>
    /\ chn_ret = TRUE
    /\ chn_s = <<0, 0>>
    /\ chn_calls = 0
    /\ SilencerIdle
    /\ SplitterIdle
    /\ AdpcmIdle
    /\ EnvelopeIdle
    /\ TrackIdle
    /\ NormalizerIdle
    /\ WavIdle
    /\ NodeIdle
    /\ LcdIdle
    /\ EditIdle
    /\ ResamplerIdle
    /\ ReverbIdle

\* A channel used on its own, and the channels of a track player.
ChannelsInit == ChannelInit \/ VoiceInit

ChannelsNext ==
    \/ chn_next
    \/ chn_is_running
    \/ chn_frequency
    \/ chn_release
    \/ chn_master_volume
    \/ ~TrackIdle /\ VoiceNext

ChannelsSpec == ChannelsInit /\ [][ChannelsNext]_vars

\* ------------------------------------------------------- silencer: claims

Min(a, b) == IF a < b THEN a ELSE b

Zeros(n) == [i \in 1..n |-> 0]

IsPrefix(a, b) == Len(a) <= Len(b) /\ SubSeq(b, 1, Len(a)) = a

\* A sample the caller may not take for silence: the threshold is stated
\* here on its own, apart from the silencer's test.
Audible(s) == s >= PSXDMH_SILENCE \/ s <= -PSXDMH_SILENCE

\* The positions of the audible samples of a stream, in order.
AudibleIdx(seq) == SelectSeq([i \in 1..Len(seq) |-> i], LAMBDA i : Audible(seq[i]))

\* The audible samples of a stream, in order.
AudibleOf(seq) == [k \in 1..Len(AudibleIdx(seq)) |-> seq[AudibleIdx(seq)[k]]]

\* The lengths of the runs that lie between two audible samples.
InteriorRuns(seq) ==
    LET ix == AudibleIdx(seq)
    IN [k \in 1..(Len(ix) - 1) |-> ix[k + 1] - ix[k] - 1]

\* The number of samples in front of the first audible one (the stream has one).
LeadingRun(seq) == AudibleIdx(seq)[1] - 1

\* The number of samples after the last audible one (the stream has one).
TrailingRun(seq) == Len(seq) - AudibleIdx(seq)[Len(AudibleIdx(seq))]

\* Every audible sample of the source has been output.
AllDelivered == Len(AudibleIdx(sil_out)) = Len(AudibleIdx(src_data))

\* C1: with lead_in = L >= 0 over a source that has a non-silent sample, the
\* output starts with exactly L zero samples followed by the source's first
\* non-silent sample, whatever silence the source started with.
C1_LeadInExact ==
    (m_lead_in >= 0 /\ AudibleIdx(src_data) # <<>>) =>
        LET P == Zeros(m_lead_in) \o <<AudibleOf(src_data)[1]>>
        IN /\ IsPrefix(sil_out, P) \/ IsPrefix(P, sil_out)
           /\ sil_stopped => IsPrefix(P, sil_out)

\* C1's case: leading silence of another length than lead_in was replaced.
C1_Witness ==
    /\ m_lead_in >= 0
    /\ AudibleIdx(src_data) # <<>>
    /\ LeadingRun(src_data) > m_lead_in
    /\ Len(sil_out) > m_lead_in + 1

\* C2: with lead_out = M >= 0 over a source that has a non-silent sample,
\* after the last non-silent sample exactly M zero samples are output and the
\* next() after them returns false.
C2_LeadOutExact ==
    (m_lead_out >= 0 /\ AudibleIdx(src_data) # <<>>) =>
        /\ AllDelivered =>
              /\ TrailingRun(sil_out) <= m_lead_out
              /\ \A i \in 1..Len(sil_out) : ~Audible(sil_out[i]) => sil_out[i] = 0
        /\ sil_stopped => AllDelivered /\ TrailingRun(sil_out) = m_lead_out

\* C2's case: trailing silence of another length than lead_out was replaced
\* and the silencer has stopped.
C2_Witness ==
    /\ m_lead_out >= 0
    /\ AudibleIdx(src_data) # <<>>
    /\ TrailingRun(src_data) # m_lead_out
    /\ sil_stopped

\* C3: with gap = G >= 1, a run of n silent samples between two non-silent
\* samples of the source is output with length min(n, G).
C3_GapTruncated ==
    (m_gap >= 1) =>
        LET ro == InteriorRuns(sil_out)
            rs == InteriorRuns(src_data)
        IN /\ Len(ro) <= Len(rs)
           /\ \A k \in 1..Len(ro) : ro[k] = Min(rs[k], m_gap)
           /\ sil_stopped => Len(ro) = Len(rs)

\* C3's case: a run longer than the gap was output, cut.
C3_Witness ==
    /\ m_gap >= 1
    /\ Len(InteriorRuns(sil_out)) >= 1
    /\ InteriorRuns(src_data)[1] > m_gap
    /\ InteriorRuns(sil_out)[1] = m_gap

\* C4: for every setting and source, the non-silent samples of the output are
\* the non-silent samples of the source, in order, none dropped or repeated,
\* and every other output sample is zero.
C4_AudiblePreserved ==
    /\ IsPrefix(AudibleOf(sil_out), AudibleOf(src_data))
    /\ sil_stopped => AudibleOf(sil_out) = AudibleOf(src_data)
    /\ \A i \in 1..Len(sil_out) : ~Audible(sil_out[i]) => sil_out[i] = 0

\* C4's case: a stream with two different non-silent samples and a non-zero
\* silent one was played to its end.
C4_Witness ==
    /\ sil_stopped
    /\ Len(AudibleOf(src_data)) >= 2
    /\ AudibleOf(src_data)[1] # AudibleOf(src_data)[2]
    /\ \E i \in 1..Len(src_data) : src_data[i] = 1

\* C5: the stop protocol: once next() has returned false, every later next()
\* returns false with a zero sample.
C5_StopIsPermanent ==
    (sil_stopped /\ sil_op = "next") => (~sil_ret /\ sil_s = 0)

\* ------------------------------------------------------- splitter: claims

\* The k-th result of the source's next(): its samples, then (0, false).
SourceResult(k) == IF k <= Len(spl_src) THEN <<spl_src[k], TRUE>> ELSE <<0, FALSE>>

\* The samples among a sequence of next() results.
SamplesOf(results) ==
    LET ok == SelectSeq(results, LAMBDA r : r[2])
    IN [k \in 1..Len(ok) |-> ok[k][1]]

Alive == {c \in Children : child[c] = "alive"}

\* C6: splitters attached before anything was pulled each receive, however
\* their calls interleave, the results of the source in source order.
C6_SameResults ==
    \A c \in Alive :
        spl_attach[c] = 0 =>
            \A k \in 1..Len(spl_got[c]) : spl_got[c][k] = SourceResult(k)

\* C6's case: three splitters attached at the start, each pulled as often as
\* the bound allows, past the end of the source.
C6_Witness ==
    /\ Alive = Children
    /\ \A c \in Children : spl_attach[c] = 0 /\ Len(spl_got[c]) = MaxPulls
    /\ spl_calls > 0
    /\ Len(spl_src) >= 1

\* C7: a splitter's next() calls the source only when its own queue is empty,
\* and then once, the sample going to every attached splitter; otherwise it
\* pops its queue's head and leaves the source and the other queues alone.
C7_PullOnlyWhenEmpty ==
    [][\A c \in Children :
        spl_op' = <<"next", c>> =>
            IF m_buffer[c] = <<>>
            THEN /\ spl_calls' = spl_calls + 1
                 /\ IF spl_pos < Len(spl_src)
                    THEN /\ spl_pos' = spl_pos + 1
                         /\ spl_got'[c] = Append(spl_got[c], <<spl_src[spl_pos + 1], TRUE>>)
                         /\ m_buffer'[c] = <<>>
                         /\ \A d \in Children \ {c} :
                               m_buffer'[d] = IF child[d] = "alive"
                                              THEN Append(m_buffer[d], spl_src[spl_pos + 1])
                                              ELSE m_buffer[d]
                    ELSE /\ spl_pos' = spl_pos
                         /\ spl_got'[c] = Append(spl_got[c], <<0, FALSE>>)
                         /\ m_buffer' = m_buffer
            ELSE /\ spl_calls' = spl_calls
                 /\ spl_pos' = spl_pos
                 /\ spl_got'[c] = Append(spl_got[c], <<Head(m_buffer[c]), TRUE>>)
                 /\ m_buffer' = [m_buffer EXCEPT ![c] = Tail(@)]
      ]_vars

\* C7's case: a splitter has just popped a queued sample while another
\* splitter still holds queued samples, the source having been called.
C7_Witness ==
    \E c \in Alive, d \in Alive :
        /\ c # d
        /\ spl_op = <<"next", c>>
        /\ spl_calls >= 2
        /\ spl_calls < Len(spl_got[c]) + Len(spl_got[d])
        /\ m_buffer[d] # <<>>

\* C8: the source is deleted exactly when the last splitter sharing it is
\* destroyed, never while a splitter is attached, and the parent's child list
\* is empty when the parent goes.
C8_SourceLifetime ==
    /\ spl_src_alive <=> Alive # {}
    /\ parent_alive <=> spl_src_alive
    /\ m_child_streams # <<>> => spl_src_alive
    /\ ~parent_alive => m_child_streams = <<>>
    /\ \A c \in Alive : \E i \in 1..Len(m_child_streams) : m_child_streams[i] = c

\* C8's case: three splitters were made, and the first one was the last to
\* be destroyed.
C8_Witness ==
    /\ \A c \in Children : child[c] = "destroyed"
    /\ spl_op = <<"destroy", 1>>
    /\ ~spl_src_alive

\* C9: a splitter made by split() starts with an empty queue and receives
\* exactly the samples pulled from the source after it was attached, in
\* source order.
C9_NoBackFill ==
    \A c \in Alive :
        SamplesOf(spl_got[c]) \o m_buffer[c] = SubSeq(spl_src, spl_attach[c] + 1, spl_pos)

\* C9's case: a splitter attached after a sample was pulled, while an older
\* splitter still had that sample queued, has received a later sample.
C9_Witness ==
    \E c \in Alive, d \in Alive :
        /\ spl_attach[c] >= 1
        /\ spl_attach[d] = 0
        /\ SamplesOf(spl_got[d]) = <<>>
        /\ SamplesOf(spl_got[c]) # <<>>

\* ---------------------------------------------------------- adpcm: claims

\* The last next() found the decoder stopped.
AdpcmStopped == ~ad_ret /\ ~ad_err

\* A stream that repeats: the last block, and no other, is final, it carries
\* the repeat jump, a repeat point exists, and no block is corrupt.
RepeatingStream ==
    /\ \A i \in 1..(Len(m_data) - 1) : ~is_final(m_data[i])
    /\ is_repeat_jump(m_data[Len(m_data)])
    /\ repeat_offset(m_data) >= 0
    /\ \A i \in 1..Len(m_data) : ~bad_filter(m_data[i])

\* 28 * (B + (N - 1) * (B - r)) for the decoder's stream and play count.
ExpectedSamples ==
    LET B == Len(m_data)
        r == repeat_offset(m_data) \div PSXDMH_ADPCM_BLOCK_SIZE
    IN PSXDMH_ADPCM_SAMPLES_PER_BLOCK * (B + (ad_plays - 1) * (B - r))

\* C10: over a repeating stream of B blocks with repeat point r, a decoder
\* built with play_count N >= 1 returns true from next() exactly
\* 28 * (B + (N - 1) * (B - r)) times and then stops.
C10_RepeatCount ==
    (RepeatingStream /\ ad_plays >= 1) =>
        /\ ad_count <= ExpectedSamples
        /\ AdpcmStopped => ad_count = ExpectedSamples
        /\ ad_count = ExpectedSamples => (is_buffer_empty(m_buffer_next) /\ m_current < 0)

\* C10's case: two blocks, repeat start on the first, final and repeat jump
\* on the second, play_count 2: stopped after 112 samples.
C10_Witness ==
    /\ Len(m_data) = 2
    /\ m_data[1].b1 = 4
    /\ m_data[2].b1 = 3
    /\ ad_plays = 2
    /\ AdpcmStopped
    /\ ad_count = 112

\* No block but the last is flagged final, and no block is corrupt.
PlainStream ==
    /\ \A i \in 1..(Len(m_data) - 1) : ~is_final(m_data[i])
    /\ \A i \in 1..Len(m_data) : ~bad_filter(m_data[i])

\* adpcm::is_running.
adpcm_is_running == ~is_buffer_empty(m_buffer_next) \/ m_current >= 0

\* C11: when the last block lacks the repeat jump, or no block is flagged
\* repeat start, the decoder returns true exactly 28 * B times for every
\* play_count, then returns false with a zero sample and is not running; one
\* all-zero final block gives only samples that are 0.
C11_PlaysOnce ==
    (/\ PlainStream
     /\ \/ ~is_repeat_jump(m_data[Len(m_data)])
        \/ \A i \in 1..Len(m_data) : ~is_repeat_start(m_data[i])) =>
        LET total == PSXDMH_ADPCM_SAMPLES_PER_BLOCK * Len(m_data)
        IN /\ ad_count <= total
           /\ AdpcmStopped => (ad_count = total /\ ad_s = 0)
           /\ ad_count = total => ~adpcm_is_running
           /\ ad_count < total => adpcm_is_running
           /\ (Len(m_data) = 1 /\ m_data[1].b0 = 0 /\ m_data[1].d = 0) => ad_s = 0

\* C11's case: a stream of two blocks whose last block is flagged final and
\* repeat start but not repeat jump, built to play indefinitely, has stopped.
C11_Witness ==
    /\ Len(m_data) = 2
    /\ m_data[2].b1 = 5
    /\ m_data[1].d # 0
    /\ ad_plays = 0
    /\ AdpcmStopped
    /\ ad_count = 56

\* The streams of C12: the last block, and no other, is final, it carries the
\* repeat jump, a block before it is flagged repeat start, no block is
\* corrupt, and the decoder was built to play indefinitely.
EndlessStream ==
    /\ PlainStream
    /\ is_repeat_jump(m_data[Len(m_data)])
    /\ \E i \in 1..(Len(m_data) - 1) : is_repeat_start(m_data[i])
    /\ ad_plays = 0

\* The byte offset of the first block flagged repeat start.
FirstRepeatStart ==
    LET i == CHOOSE i \in 1..Len(m_data) :
                 /\ is_repeat_start(m_data[i])
                 /\ \A j \in 1..(i - 1) : ~is_repeat_start(m_data[j])
    IN (i - 1) * PSXDMH_ADPCM_BLOCK_SIZE

\* The decoder is about to decode the last block.
AtLastBlock ==
    /\ is_buffer_empty(m_buffer_next)
    /\ m_current = (Len(m_data) - 1) * PSXDMH_ADPCM_BLOCK_SIZE

\* C12 as stated: built to play indefinitely over a stream with a repeat
\* start before its final, repeat jump block, the decoder never stops, its
\* play count stays 0, and after the final block it resumes at the first
\* block flagged repeat start.
C12_ResumesAtFirst ==
    [][(EndlessStream /\ AtLastBlock) =>
          (ad_ret' /\ m_play_count' = 0 /\ m_current' = FirstRepeatStart)]_vars

\* C12, amended: the decoder never stops, its play count stays 0, and after
\* the final block it resumes at the block flagged repeat start that it
\* entered last, which is the last such block of the stream.
C12_ResumesAtLast ==
    /\ [](EndlessStream => (ad_ret /\ ~ad_err /\ m_play_count = 0 /\ adpcm_is_running))
    /\ [][(EndlessStream /\ AtLastBlock) =>
             (ad_ret' /\ m_play_count' = 0 /\ m_current' = repeat_offset(m_data))]_vars

\* C12's case: two blocks flagged repeat start, the decoder in its second
\* round of the repeated part.
C12_Witness ==
    /\ EndlessStream
    /\ FirstRepeatStart # repeat_offset(m_data)
    /\ ad_count > PSXDMH_ADPCM_SAMPLES_PER_BLOCK * (Len(m_data) + 1)

\* The number of the first corrupt block of a stream that has one.
FirstCorrupt ==
    CHOOSE i \in 1..Len(m_data) :
        /\ bad_filter(m_data[i])
        /\ \A j \in 1..(i - 1) : ~bad_filter(m_data[j])

\* C13: next() throws exactly when a block with a filter of 5 or more is
\* entered, after the 28 samples of each block before it, without giving a
\* sample, and the filter tables are never read past their 5 entries.
C13_CorruptBlock ==
    /\ ad_filter < 5
    /\ ad_err =>
          /\ is_buffer_empty(m_buffer_next)
          /\ m_current >= 0
          /\ bad_filter(block_at(m_data, m_current))
          /\ ad_count % PSXDMH_ADPCM_SAMPLES_PER_BLOCK = 0
    /\ (/\ \E i \in 1..Len(m_data) : bad_filter(m_data[i])
        /\ \A j \in 1..(FirstCorrupt - 1) : ~is_final(m_data[j])) =>
          /\ ad_count <= PSXDMH_ADPCM_SAMPLES_PER_BLOCK * (FirstCorrupt - 1)
          /\ ad_ret
          /\ ad_err => ad_count = PSXDMH_ADPCM_SAMPLES_PER_BLOCK * (FirstCorrupt - 1)

\* C13's case: the second block is corrupt, and next() has thrown after the
\* 28 samples of the first.
C13_Witness ==
    /\ Len(m_data) = 2
    /\ bad_filter(m_data[2])
    /\ ad_err
    /\ ad_count = 28

\* ------------------------------------------------------- envelope: claims

\* C14: after any sequence of next() and release() calls, for every register
\* pair, the envelope's volume is within 0 .. 0x7FFF, and it is exactly 0
\* whenever the phase is Stopped.
C14_VolumeRange ==
    /\ m_volume \in 0..VolumeMax
    /\ m_phase = ep_stopped => m_volume = 0

\* A released envelope was pulled down to Stopped from the top of the range.
C14_Witness ==
    /\ m_phase = ep_stopped
    /\ env_op = "next"
    /\ env_released
    /\ env_out = 0
    /\ ~env_ret

\* C15: an envelope starts in Attack; its phase only moves forward in the
\* order Attack, Decay, Sustain, Release, Stopped; next() advances it by at
\* most one phase per call, never leaves Sustain and never enters Release;
\* release() on a Stopped envelope leaves it Stopped.
C15_PhaseOrder ==
    /\ [](env_op = "none" => m_phase = ep_attack)
    /\ [][/\ m_phase' >= m_phase
          /\ env_op' = "next" =>
                /\ m_phase' <= m_phase + 1
                /\ m_phase = ep_sustain => m_phase' = ep_sustain
                /\ m_phase' = ep_release => m_phase = ep_release
          /\ (env_op' = "release" /\ m_phase = ep_stopped) => m_phase' = ep_stopped]_vars

\* A decreasing sustain has brought the volume down to 0, the level nearest
\* to its target, and next() has left the envelope in Sustain.
C15_Witness ==
    /\ m_phase = ep_sustain
    /\ m_volume = 0
    /\ env_out = 0
    /\ env_op = "next"
    /\ ~env_released

Registers8FFF == spu_ads = 36863 /\ spu_sr = 0

\* A next() call in Release has lowered the triple of volume, repeats left
\* and ticks left to wait, in lexicographic order.
ReleaseMeasureLowered ==
    \/ m_volume' < m_volume
    \/ m_volume' = m_volume /\ m_cycle_repeats' < m_cycle_repeats
    \/ /\ m_volume' = m_volume
       /\ m_cycle_repeats' = m_cycle_repeats
       /\ m_cycle_current_wait' < m_cycle_current_wait

\* C16: for every register pair, 0x0000/0x0000 included, a released envelope
\* reaches Stopped after finitely many next() calls: every wait and repeat
\* count of a running envelope is at least 1, every release cycle has a step
\* that lowers a volume that is not 0, every next() call in Release either
\* stops the envelope or lowers the triple (volume, repeats left, ticks left
\* to wait), whose members are never negative, and once Stopped next()
\* returns false and is_running() stays false.
C16_ReleaseStops ==
    /\ [](m_phase # ep_stopped =>
            /\ m_cycle_wait >= 1
            /\ m_cycle_repeats >= 1
            /\ m_cycle_current_wait >= 1)
    /\ []((m_phase = ep_release /\ m_volume > 0) => m_cycle_step < 0)
    /\ [](m_phase = ep_release => (m_volume >= 0 /\ m_cycle_repeats >= 0))
    /\ [][(m_phase = ep_release /\ env_op' = "next") =>
            \/ m_phase' = ep_stopped
            \/ m_phase' = ep_release /\ ReleaseMeasureLowered]_vars
    /\ [][(m_phase = ep_stopped /\ env_op' = "next") =>
            (~env_ret' /\ m_phase' = ep_stopped)]_vars

\* The envelope of registers 0x0000/0x0000 was released and pulled to Stopped,
\* and a further next() returned false.
C16_Witness ==
    /\ spu_ads = 0
    /\ spu_sr = 0
    /\ env_released
    /\ m_phase = ep_stopped
    /\ env_op = "next"
    /\ ~env_ret

\* C17 as stated: the envelope of registers 0x8FFF/0x0000 that is only pulled
\* with next(), release() never being called, reaches Stopped.
C17_PulledToStopped ==
    Registers8FFF => <>(env_released \/ m_phase = ep_stopped)

\* C17: the envelope of registers 0x8FFF/0x0000 that is only pulled with
\* next() raises its volume monotonically to 0x7FFF during Attack, passes
\* Decay and reaches Sustain, and is neither in Release nor Stopped before
\* release() is called; once released it reaches volume 0 and Stopped.
C17_StaysInSustain ==
    /\ [][(Registers8FFF /\ m_phase = ep_attack /\ env_op' = "next") =>
            /\ m_volume' >= m_volume
            /\ m_phase' # ep_attack => m_volume' = VolumeMax]_vars
    /\ []((Registers8FFF /\ ~env_released) => m_phase \in {ep_attack, ep_decay, ep_sustain})
    /\ Registers8FFF => <>(env_released \/ m_phase = ep_sustain)
    /\ (Registers8FFF /\ env_released) ~> (m_phase = ep_stopped /\ m_volume = 0)

\* The envelope of registers 0x8FFF/0x0000 sits in Sustain at full volume
\* after a next() that changed nothing, release() not having been called.
C17_Witness ==
    /\ Registers8FFF
    /\ m_phase = ep_sustain
    /\ m_volume = VolumeMax
    /\ env_out = VolumeMax
    /\ env_op = "next"
    /\ ~env_released

\* --------------------------------------------------- track player: claims

\* The track tick the stream is at after n caller ticks.
TickAt(n) == (n * m_track_ticks_per_minute) \div m_caller_ticks_per_minute

\* C18: an event whose absolute track tick is T is applied in the next() call
\* of zero-based index n, the smallest n with floor(n * track_tpm /
\* consumer_tpm) >= T; after every tick() the tick fraction is below
\* consumer_tpm and the tick position is floor(ticks * track_tpm /
\* consumer_tpm).
C18_EventTiming ==
    /\ m_tick_fraction < m_caller_ticks_per_minute
    /\ m_tick_position = TickAt(tp_ticks)
    /\ \A i \in DOMAIN tp_applied :
           /\ TickAt(tp_applied[i].call) >= tp_applied[i].time
           /\ tp_applied[i].call > 0 => TickAt(tp_applied[i].call - 1) < tp_applied[i].time

\* At 40 track ticks to 60 caller ticks an event of track tick 2 was applied
\* in the call of index 3.
C18_Witness ==
    /\ m_track_ticks_per_minute = 40
    /\ m_caller_ticks_per_minute = 60
    /\ \E i \in DOMAIN tp_applied : tp_applied[i].time = 2 /\ tp_applied[i].call = 3

\* The offset of the event that follows the event at an offset.
FollowingEvent(data, at) == get_delta(data, at + 1 + event_size(event_code(data[at + 1]))).pos

\* The note of a channel was switched off by an event applied after the
\* note on that created the channel, in the same next() call.
SwitchedOffAtOnce(c) ==
    \E j \in DOMAIN tp_applied :
        /\ j > c.event
        /\ tp_applied[j].code = "note_off"
        /\ tp_applied[j].data_0 = c.note
        /\ tp_applied[j].call = c.born

\* C19: events on the same tick are applied within one next() call, in the
\* order of the byte stream with none left out, and before any channel is
\* pulled: a channel whose note was switched off in the call that switched
\* it on is released when it is first pulled.
C19_SameTickOrder ==
    /\ \A i, j \in DOMAIN tp_applied :
           tp_applied[i].time = tp_applied[j].time => tp_applied[i].call = tp_applied[j].call
    /\ \A i \in DOMAIN tp_applied :
           i < Len(tp_applied) =>
               tp_applied[i + 1].at = IF tp_applied[i].seek
                                      THEN trk_repeat_start
                                      ELSE FollowingEvent(trk_data, tp_applied[i].at)
    /\ \A i \in DOMAIN m_channels :
           (m_channels[i].sampled /\ SwitchedOffAtOnce(m_channels[i])) =>
               m_channels[i].first_released

\* A note on and its note off fell on one tick, and the channel has given its
\* first sample.
C19_Witness ==
    /\ \E i \in DOMAIN m_channels :
           /\ m_channels[i].sampled
           /\ SwitchedOffAtOnce(m_channels[i])
           /\ m_channels[i].first_released
    /\ \E i \in DOMAIN tp_applied :
           /\ i < Len(tp_applied)
           /\ tp_applied[i].code = "note_on"
           /\ tp_applied[i + 1].code = "note_off"
           /\ tp_applied[i + 1].time = tp_applied[i].time

\* The applied events up to the n-th that are jumps, and those that moved
\* the stream.
JumpsUpTo(n) == {i \in 1..n : tp_applied[i].code = "jump_to_marker"}

SeeksUpTo(n) == {i \in 1..n : tp_applied[i].seek}

\* The offsets of the jump events of the music data.
JumpOffsets ==
    {at \in EventOffsets(trk_data, 0) : event_code(trk_data[at + 1]) = "jump_to_marker"}

\* C20: a player of a repeating track with play count N >= 1 seeks to
\* repeat_start on exactly the first N - 1 jumps and not on later ones, its
\* play count ending at 1, so that a single jump at or after repeat_start is
\* passed N times; with play count 0 every jump seeks and the play count
\* stays 0; on a track that does not repeat no jump moves the stream.
C20_RepeatPlays ==
    /\ (trk_repeat /\ tp_plays >= 1) =>
           /\ \A i \in JumpsUpTo(Len(tp_applied)) :
                  tp_applied[i].seek <=> Cardinality(JumpsUpTo(i)) <= tp_plays - 1
           /\ tp_play_count = tp_plays - Cardinality(SeeksUpTo(Len(tp_applied)))
           /\ Cardinality(JumpsUpTo(Len(tp_applied))) >= tp_plays - 1 => tp_play_count = 1
           /\ \A at \in JumpOffsets :
                  (/\ JumpOffsets = {at}
                   /\ trk_repeat_start <= at
                   /\ ~stream_is_running(trk_data, m_position)) =>
                      Cardinality({i \in DOMAIN tp_applied : tp_applied[i].at = at}) = tp_plays
    /\ (trk_repeat /\ tp_plays = 0) =>
           /\ \A i \in JumpsUpTo(Len(tp_applied)) : tp_applied[i].seek
           /\ tp_play_count = 0
    /\ ~trk_repeat =>
           /\ SeeksUpTo(Len(tp_applied)) = {}
           /\ \A i \in DOMAIN tp_applied :
                  i < Len(tp_applied) => tp_applied[i + 1].at > tp_applied[i].at

\* A repeating track played with play count 2 has passed its jump twice,
\* seeking the first time only, and has come to its end.
C20_Witness ==
    /\ trk_repeat
    /\ tp_plays = 2
    /\ Cardinality(JumpsUpTo(Len(tp_applied))) = 2
    /\ Cardinality(SeeksUpTo(Len(tp_applied))) = 1
    /\ tp_play_count = 1
    /\ ~stream_is_running(trk_data, m_position)

\* C21: at any point of playback failed_to_repeat() of a track is true if and
\* only if the track's stream is exhausted, its play count is still greater
\* than 1 and its header does not flag a repeat.
C21_FailedToRepeat ==
    ~tp_err =>
        (track_failed_to_repeat(tp_play_count) <=>
            /\ ~stream_is_running(trk_data, m_position)
            /\ tp_play_count > 1
            /\ ~trk_repeat)

\* C22: a player of a track without music data can be constructed, is not
\* running, returns false from its first next() and never creates a channel.
C22_EmptyTrack ==
    trk_data = <<>> =>
        /\ ~tp_err
        /\ ~track_is_running(m_channels, trk_repeat, tp_play_count, trk_data, m_position)
        /\ tp_calls > 0 => ~tp_ret
        /\ m_channels = <<>>

\* C28: every next() call of a track player returns after finitely many
\* events, for every play count and also when a jump seeks back into a
\* section whose deltas are all zero.
C28_EventLoopEnds == ~tp_hung

\* The eleven event codes and the parameter bytes each one is followed by.
ParameterBytes(byte) ==
    CASE byte \in {17, 7, 9, 32} -> 2
      [] byte \in {18, 12, 13, 11, 14} -> 1
      [] byte \in {35, 34} -> 0
      [] OTHER -> -1

\* A delta starting at pos is complete: some byte at or after pos is below
\* 128 and every byte before it, from pos on, is not.
DeltaComplete(data, pos) ==
    \E k \in (pos + 1)..Len(data) :
        /\ data[k] < 128
        /\ \A j \in (pos + 1)..(k - 1) : data[j] >= 128

\* The get_event() call about to be made reads an event whose code is not
\* defined, whose parameters end beyond the data, or whose following delta
\* does.
ReadsBeyondOrUnknown ==
    LET byte == trk_data[m_position + 1]
        size == ParameterBytes(byte)
        after == m_position + 1 + size
    IN \/ size = -1
       \/ after > Len(trk_data)
       \/ byte # 34 /\ after < Len(trk_data) /\ ~DeltaComplete(trk_data, after)

\* C23: whatever get_event() and seek() calls are made on whatever bytes, the
\* stream's position stays within 0..size; a get_event() that meets an
\* undefined event code, parameters running past the end or a delta running
\* past the end throws, and no other get_event() does; a seek() beyond the
\* size throws and leaves the position where it was, and any other seek()
\* moves the stream there.
C23_StaysInside ==
    [][/\ m_position' \in 0..Len(trk_data)
       /\ (ms_op'[1] = "get_event"
           /\ have_event(trk_data, m_position, m_next_event_time, m_tick_position))
              => (tp_err' <=> ReadsBeyondOrUnknown)
       /\ ms_op'[1] = "seek" =>
              IF ms_op'[2] > Len(trk_data)
              THEN tp_err' /\ m_position' = m_position
              ELSE ~tp_err' /\ m_position' = ms_op'[2]]_vars

\* A seek beyond the end was refused after the stream had moved, and a
\* get_event() ran into the end of the data.
C23_Witness ==
    /\ ms_op[1] = "seek"
    /\ ms_op[2] > Len(trk_data)
    /\ tp_err
    /\ m_position > 1

\* The gain the first pass must settle on: one over the loudest magnitude of
\* the source, but no more than the limit given at construction.
ExpectedGain(src, limit) ==
    LET Loudest == CHOOSE m \in {0} \cup {magnitude(src[i])[1] : i \in 1..Len(src)} :
                       \A i \in 1..Len(src) : magnitude(src[i])[1] <= m
    IN IF Loudest * limit > 1 THEN <<1, Loudest>> ELSE <<limit, 1>>

\* a and b are the same fraction.
SameLevel(a, b) == a[1] * b[2] = b[1] * a[2]

\* The first next() call returned or failed in the file it read back.
FirstPassDone == Len(nm_pulls) > 1 \/ (Len(nm_pulls) = 1 /\ m_temp_file = "read")

\* C24: the normalizer's first next() pulls its source until the source
\* returns false before it returns anything, and no later call pulls the
\* source; the calls return true once per sample the source produced, in the
\* source's order, each sample multiplied by the one gain fixed at the end of
\* the first pass, and false after that.
C24_TwoPasses ==
    FirstPassDone =>
        LET n == Len(nm_src)
            calls == Len(nm_pulls)
            done == IF nm_err THEN calls - 1 ELSE calls
        IN /\ nm_pulls[1] = n + 1
           /\ \A i \in 2..calls : nm_pulls[i] = 0
           /\ Len(nm_out) = Min(done, n)
           /\ ~nm_err => (nm_ret <=> calls <= n)
           /\ \E limit \in NormLimits :
                  /\ SameLevel(m_normalization, ExpectedGain(nm_src, limit))
                  /\ \A i \in 1..Len(nm_out) :
                         SameLevel(nm_out[i],
                                   <<nm_src[i] * ExpectedGain(nm_src, limit)[1],
                                     ExpectedGain(nm_src, limit)[2]>>)

\* A source of two samples, the quieter one last, was handed out whole at a
\* gain below one and the call after that returned false.
C24_Witness ==
    /\ Len(nm_src) = 2
    /\ magnitude(nm_src[2])[1] < magnitude(nm_src[1])[1]
    /\ magnitude(nm_src[1])[1] > 1
    /\ Len(nm_out) = 2
    /\ Len(nm_pulls) = 3
    /\ ~nm_ret
    /\ ~nm_err

\* C25: once the normalizer has been destroyed, a spill file it created no
\* longer exists, however playback ended.
C25_SpillRemoved ==
    (nm_destroyed /\ m_temp_file_created) => ~nm_file_exists

\* C26 as stated: the writer pulls the root only while the root's
\* is_running() is true.
C26_StopsWhenNotRunning ==
    \A i \in 1..Len(wav_pulls) : wav_pulls[i].running

\* The next() calls the writer made although is_running() was false.
PullsAfterStop == {i \in 1..Len(wav_pulls) : ~wav_pulls[i].running}

\* C26, amended: the writer never asks is_running(); it pulls the root until
\* a next() call that starts a batch returns false, which takes one or two
\* calls made after is_running() has become false; every sample the root
\* produced is in the file, converted to 16 bits, in the root's order.
C26_DrivesUntilFalse ==
    /\ wav_state \in {"open", "closed"} =>
           /\ wav_m_samples = Len(wav_data)
           /\ wav_m_samples = Cardinality({i \in 1..Len(wav_pulls) : wav_pulls[i].ret})
           /\ \A i \in 1..Len(wav_data) :
                  LET s == wav_root[i]
                  IN wav_data[i] = IF s >= 4 THEN SHRT_MAX
                                   ELSE IF s <= -4 THEN SHRT_MIN
                                   ELSE IF s >= 0 THEN (s * SHRT_MAX * 2 + 4) \div 8
                                   ELSE -((-(s * SHRT_MAX * 2 + 4)) \div 8)
           /\ Cardinality(PullsAfterStop) <= 2
    /\ wav_state = "open" =>
           \A i \in 1..Len(wav_pulls) : wav_pulls[i].batch_start => wav_pulls[i].ret
    /\ wav_state = "closed" =>
           /\ wav_pulls # <<>>
           /\ wav_pulls[Len(wav_pulls)].batch_start
           /\ ~wav_pulls[Len(wav_pulls)].ret
           /\ \A i \in 1..(Len(wav_pulls) - 1) :
                  wav_pulls[i].batch_start => wav_pulls[i].ret
           /\ Len(wav_data) = Len(wav_root)
           /\ Cardinality(PullsAfterStop) >= 1

\* A root whose output ends inside a batch was written whole: the writer
\* heard false twice.
C26_Witness ==
    /\ wav_state = "closed"
    /\ Len(wav_root) = 3
    /\ Cardinality(PullsAfterStop) = 2
    /\ wav_data[2] < 0

\* The modules other than the silencer take at most one sample from each
\* source in a step.
OnePullOfOthers ==
    /\ node_st'.calls <= node_st.calls + 1
    /\ node_st2'.calls <= node_st2.calls + 1
    /\ spl_op' # spl_op \/ spl_calls' # spl_calls => spl_calls' <= spl_calls + 1

\* C27 as stated: during one next() call the silencer, a splitter, a filter,
\* a reverb, a volume, a statistics module and a channel each pull at most
\* one sample from their source.
C27_OnePullPerNext ==
    [][/\ sil_op' = "next" => src_pos' <= src_pos + 1
       /\ OnePullOfOthers]_vars

\* C27, amended: the silencer is a third exception; during one next() call a
\* splitter, a filter, a reverb, a volume, a statistics module and a channel
\* each pull at most one sample from each of their sources.
C27_OnePullExceptSilencer ==
    [][OnePullOfOthers]_vars

\* A filter was pulled after its source had ended and was still running, its
\* source having been called once per call.
C27_Witness ==
    /\ node_kind = "filter"
    /\ node_ret
    /\ node_st.calls > Len(node_src) + 1
    /\ node_st.calls = node_calls

\* A listed patch that is present with a size or a repeat offset other than
\* the table's.
Mismatched(fix, adpcm) ==
    /\ adpcm # <<>>
    /\ \/ Len(adpcm) * PSXDMH_ADPCM_BLOCK_SIZE # fix.size
       \/ repeat_offset(adpcm) # fix.repeat_offset

\* C29: repair_patches() throws exactly when some listed patch is present
\* with a size or a repeat offset that differs from the table's, no repeat
\* point differing from every expected offset; the patch it throws for is
\* left as it was, an absent patch stays absent, and when nothing differs
\* every listed patch that is present has been edited as its entry says.
C29_MismatchIsFatal ==
    rp_done =>
        LET Fixes == {m_patch_fixes[i] : i \in 1..Len(m_patch_fixes)}
            Bad == {fix \in Fixes : Mismatched(fix, rp_before[fix.id])}
        IN /\ rp_thrown # 0 <=> Bad # {}
           /\ \A fix \in Bad : m_patches[fix.id] = rp_before[fix.id]
           /\ \A fix \in Fixes : rp_before[fix.id] = <<>> => m_patches[fix.id] = <<>>
           /\ Bad = {} =>
                  \A fix \in Fixes :
                      rp_before[fix.id] # <<>> =>
                          m_patches[fix.id] =
                              edit_adpcm(rp_before[fix.id], fix.silence_start_blocks,
                                         fix.remove_end_blocks).adpcm

\* C30: after edit_adpcm() on arguments its assertion accepts the data is a
\* valid ADPCM stream (at least one block, the last block flagged final and
\* carrying the flag byte of the original last block), nothing was written
\* outside the data, every silenced block has kept its flag byte, and data
\* that repeated still repeats from the same offset.
C30_EditKeepsStream ==
    ed_done =>
        /\ Len(ed_adpcm) >= 1
        /\ ~ed_outside
        /\ is_final(ed_adpcm[Len(ed_adpcm)])
        /\ ed_adpcm[Len(ed_adpcm)].b1 = ed_before[Len(ed_before)].b1
        /\ \A i \in 1..Len(ed_adpcm) :
               i <= ed_silence_start /\ i < Len(ed_adpcm) => ed_adpcm[i].b1 = ed_before[i].b1
        /\ repeat_offset(ed_before) >= 0 =>
               repeat_offset(ed_adpcm) = repeat_offset(ed_before)

\* C40: is_running() and the next() call that follows it give the same
\* answer: a next() made straight after is_running() returns what
\* is_running() returned.
C40_AgreesWithNext ==
    [][(sil_op = "is_running" /\ sil_op' = "next") => (sil_ret' <=> sil_ret)]_vars

\* C38: whenever track_player::next has returned false, is_running() of the
\* same player is false at that moment.
C38_StopAgrees ==
    (tp_calls > 0 /\ ~tp_err /\ ~tp_hung /\ ~tp_ret) =>
        ~track_is_running(m_channels, trk_repeat, tp_play_count, trk_data, m_position)

\* ------------------------------------------------------ resampler: claims

\* The index, from 0, of the output the last next() call gave.
LastOutput == rs_count - 1

\* Every next() call so far ran with rate_in = rate_out, the last call was a
\* next() that gave a sample, and the source is not empty.
SameRateOutput == rs_equal /\ rs_op = "next" /\ rs_ret /\ rs_count >= 1 /\ Len(rs_src) >= 1

\* The source is an impulse: a one, then zeros and at least one of them.
ImpulseSource ==
    /\ Len(rs_src) >= 2
    /\ rs_src[1] = 1
    /\ \A i \in 2..Len(rs_src) : rs_src[i] = 0

C37_OffsetInRange ==
    /\ 0 <= m_offset
    /\ m_offset < m_rate_out
    /\ index_for_offset(m_offset, m_window) + 2 * m_window <= m_rate_out * m_window * 2
    /\ m_buffer_head < 2 * m_window

\* ---------------------------------------------------------- reverb: claims

\* C35: for each of the seven usable presets every offset a register gives
\* and every derived offset is below the buffer size, each derived sum is
\* below twice the buffer size before it is wrapped, current + offset is
\* below twice the buffer size for every position, and every index next()
\* reads or writes lies in [0, buffer size).
C35_IndicesInBuffer ==
    rv_op = "offsets" =>
        /\ \A reg \in OffsetRegisters : offset_of(rv_preset, reg, rv_size) < rv_size
        /\ \A sums \in {derived_sums(rv_preset, rv_size)} :
               \A name \in DOMAIN sums : sums[name] >= 0 /\ sums[name] < 2 * rv_size
        /\ \A derived \in {derived_offsets(rv_preset, rv_size)} :
               \A name \in DOMAIN derived : derived[name] < rv_size
        /\ \A offset \in used_offsets(rv_preset, rv_size) : rv_current + offset < 2 * rv_size
        /\ \A index \in rv_indices : 0 <= index /\ index < rv_size

\* The space echo preset at the last position of its buffer: some indices
\* were wrapped and lie below the position, and a derived offset was wrapped.
C35_Witness ==
    /\ rv_op = "offsets"
    /\ rv_preset = 7
    /\ rv_current = rv_size - 1
    /\ \E index \in rv_indices : index < rv_current
    /\ derived_sums(rv_preset, rv_size).mlapf1_dapf1 >= rv_size

\* The threshold of silence of the reverb core.
RvSilent(v) == Abs(v) <= silence_of(rv_volume)

\* C36: is_running() and next() return false only when the source has
\* stopped and every entry of the buffer is at or below the silence
\* threshold, the call that first says so having inspected every entry in one
\* pass; no call inspects more than buffer_size entries; once a call has
\* returned false every later call returns false and next() leaves the
\* buffer and its position alone.
C36_StopsWhenSilent ==
    /\ [](/\ rv_scanned <= rv_size
          /\ (rv_op \in {"is_running", "next"} /\ ~rv_ret) =>
                 /\ rv_pos >= Len(rv_src)
                 /\ \A i \in 1..rv_size : RvSilent(rv_buffer[i])
                 /\ rv_scanned \in {0, rv_size}
                 /\ rv_op = "next" => rv_s = <<0, 0>>)
    /\ [][(rv_stopped \/ (rv_op \in {"is_running", "next"} /\ ~rv_ret)) =>
              /\ ~rv_ret'
              /\ rv_scanned' = 0
              /\ UNCHANGED <<rv_buffer, rv_current>>]_vars
    /\ [][(~rv_stopped /\ rv_stopped') => rv_scanned' = rv_size]_vars

\* A reverb core whose source gave a sample that is not zero has stopped:
\* next() has returned false, with an entry of the buffer that is silent
\* and not zero.
C36_Witness ==
    /\ rv_op = "next"
    /\ ~rv_ret
    /\ rv_stopped
    /\ \E i \in 1..Len(rv_src) : rv_src[i] # <<0, 0>>
    /\ \E i \in 1..rv_size : rv_buffer[i] # 0

\* ----------------------------------------------------------- voices: claims

\* The play count, track volume, pan offset and unit pitch bend of the player
\* before its i-th applied event.
FieldsBefore(i) == IF i = 1 THEN <<tp_plays, 127, 0, 0>> ELSE tp_applied[i - 1].fields

\* The pan a note gets from the sub-instrument at a pan offset.
PanAt(pan_offset) == adjust_stereo_effect(clamp(trk_instrument.pan + pan_offset, 0, 127))

\* C34: the handling of a volume or pan offset event changes the cached
\* track volume or pan offset alone, which the note on events after it use:
\* it alters no channel, play count or pitch bend and leaves the stream where
\* the extraction of the event put it, every channel keeping the volume and
\* pan of the track volume and pan offset in force when its note on was
\* handled; the handling of a set instrument, set marker, unknown 0b,
\* unknown 0e or end of stream event changes nothing.
C34_ControlFrame ==
    /\ <<tp_play_count, m_track_volume, m_pan_offset, m_unit_pitch_bend>> =
           FieldsBefore(Len(tp_applied) + 1)
    /\ \A i \in DOMAIN tp_applied :
           LET e == tp_applied[i]
               before == FieldsBefore(i)
           IN /\ e.code = "volume" =>
                     /\ e.fields = <<before[1], e.data_0, before[3], before[4]>>
                     /\ ~e.voices
                     /\ ~e.seek
              /\ e.code = "pan_offset" =>
                     /\ e.fields = <<before[1], before[2], e.data_0 - 64, before[4]>>
                     /\ ~e.voices
                     /\ ~e.seek
              /\ e.code \in {"set_instrument", "set_marker", "unknown_0b", "unknown_0e", "eos"} =>
                     /\ e.fields = before
                     /\ ~e.voices
                     /\ ~e.seek
              /\ (e.code \notin {"jump_to_marker", "eos"} /\ i < Len(tp_applied)) =>
                     tp_applied[i + 1].at = FollowingEvent(trk_data, e.at)
    /\ \A i \in DOMAIN m_channels :
           LET c == m_channels[i]
               before == FieldsBefore(c.event)
               velocity == trk_data[tp_applied[c.event].at + 3]
           IN /\ c.m_pan = PanAt(before[3])
              /\ c.m_volume = master_volume(before[2] * trk_instrument.volume * velocity,
                                            PanAt(before[3]))

\* A voice that began at full track volume is sounding after a volume event
\* that lowered the track volume to 50, pulled since.
C34_Witness ==
    \E i \in DOMAIN m_channels, j \in DOMAIN tp_applied :
        /\ j > m_channels[i].event
        /\ tp_applied[j].code = "volume"
        /\ m_track_volume = 50
        /\ m_channels[i].sampled
        /\ m_channels[i].m_volume =
               master_volume(127 * trk_instrument.volume * 100, PanAt(0))

\* The note off events for a note applied after the applied event of index
\* event.
NoteOffsAfter(note, event) ==
    {j \in DOMAIN tp_applied :
        j > event /\ tp_applied[j].code = "note_off" /\ tp_applied[j].data_0 = note}

\* The applied events that created the channels of a list.
VoicesOf(channels) == {channels[i].event : i \in DOMAIN channels}

\* C33: release() has been called on an active voice once for every note off
\* of the voice's own note applied since the voice began, and for no other
\* event, so that a note off releases every active voice of its note, once
\* more if it was released before, and no voice of another note; no note off
\* throws; a voice, released or not, stays in the list of active voices and
\* is pulled in every next() call until its own next() returns false, and
\* is taken out in the call in which that happens.
C33_NoteOffReleases ==
    /\ [](\A i \in DOMAIN m_channels :
             /\ m_channels[i].releases =
                    Cardinality(NoteOffsAfter(m_channels[i].note, m_channels[i].event))
             /\ m_channels[i].released <=> m_channels[i].releases > 0
             /\ m_channels[i].sampled)
    /\ [](\A i \in DOMAIN tp_applied : tp_applied[i].code = "note_off" => ~tp_err)
    /\ [][\A i \in DOMAIN m_channels :
             /\ m_channels[i].event \in VoicesOf(m_channels') <=> channel_next(m_channels[i])
             /\ \A j \in DOMAIN m_channels' :
                    m_channels'[j].event = m_channels[i].event =>
                        m_channels'[j].note = m_channels[i].note]_vars

\* Two voices of note 60 and a voice of note 61 are active, a second note off
\* for note 60 has released both voices of note 60 once more and the voice
\* of note 61 has never been released.
C33_Witness ==
    /\ ~tp_err
    /\ \E i, j, k \in DOMAIN m_channels :
           /\ i # j
           /\ m_channels[i].note = 60 /\ m_channels[i].releases = 2
           /\ m_channels[j].note = 60 /\ m_channels[j].releases = 2
           /\ m_channels[k].note = 61 /\ m_channels[k].releases = 0
           /\ channel_next(m_channels[i])
           /\ channel_next(m_channels[j])

\* ---------------------------------------------------------- channel: claims

\* Whether the resampler or the envelope of a channel reports that it has
\* stopped when it is pulled.
SourceStopped(c) == c.samples_left = 0 \/ c.env_stopped

\* C32: a channel drops its resampler in the next() call in which its
\* resampler or its envelope reports that it has stopped, and in no other
\* call; that call still returns true; from then on the resampler is never
\* there again whatever is called, frequency(), release() and
\* master_volume() included, every next() returns false with a zero sample
\* and is_running() returns false; a track player pulls each of its voices
\* in every next() call and takes a voice out of its list in the first call
\* in which the voice's next() returns false.
C32_StopsForGood ==
    /\ [][chn # <<>> =>
            /\ (chn.m_resampler /\ chn_op'[1] = "next") =>
                   /\ chn_ret'
                   /\ chn'.m_resampler <=> ~SourceStopped(chn)
            /\ (chn.m_resampler /\ chn_op'[1] # "next") => chn'.m_resampler
            /\ ~chn.m_resampler =>
                   /\ ~chn'.m_resampler
                   /\ chn_op'[1] = "next" => (~chn_ret' /\ chn_s' = <<0, 0>>)
                   /\ chn_op'[1] = "is_running" => ~chn_ret']_vars
    /\ [][\A i \in DOMAIN m_channels :
             IF channel_next(m_channels[i])
             THEN \E j \in DOMAIN m_channels' :
                      /\ m_channels'[j].event = m_channels[i].event
                      /\ channel_next(m_channels'[j]) <=> ~SourceStopped(m_channels[i])
             ELSE m_channels[i].event \notin VoicesOf(m_channels')]_vars

\* A channel whose master volume was set to 0 and on which release() was
\* called twice has stopped, its rate being the one it was built with, and
\* its last next() of all returned false.
C32_Witness ==
    /\ chn # <<>>
    /\ ~chn.m_resampler
    /\ chn.rate_in = 44100
    /\ chn.m_volume = master_volume(0, 64)
    /\ chn.releases = 2
    /\ chn_op[1] = "next"
    /\ ~chn_ret
    /\ chn_calls = MaxChannelCalls

\* ------------------------------------------------------ played track: claims

\* The voices of a list that are not in another.
Removed(before, after) == {i \in DOMAIN before : before[i].event \notin VoicesOf(after)}

\* What a next() call can change in a player: the stream, the play count and
\* the voices.
PlayerState == <<m_position, m_next_event_time, m_tick_position, m_tick_fraction,
                 tp_play_count, m_channels>>

\* Every note on played so far was followed by a note off for its note: no
\* active voice is left unreleased.
AllReleased == \A i \in DOMAIN m_channels : m_channels[i].released

====
